---- MODULE Spec2Model ----
(***************************************************************************)
(* The formula evaluation engine of the spreadsheet editor.                *)
(*                                                                         *)
(* getDisplayValue / evaluateFormula (components/Spreadsheet.tsx) turn the *)
(* raw content of a cell into the text shown for it: two regular-          *)
(* expression substitution passes over the formula text (bare cell         *)
(* references, then SUM(...) and AVERAGE(...) over ranges), followed by    *)
(* the evaluation of what is left as a JavaScript expression.              *)
(*                                                                         *)
(* Text is modelled character by character: a JavaScript string is a TLA+  *)
(* string in the state and the sequence of its characters inside the       *)
(* operators.  JavaScript numbers are exact rationals together with        *)
(* Infinity, -Infinity, NaN and the negative zero.                         *)
(***************************************************************************)
EXTENDS Integers, Sequences, FiniteSets, TLC

(***************************************************************************)
(* Strings                                                                 *)
(***************************************************************************)

\* The characters of a string, in order.
Str(s) == [i \in 1..Len(s) |-> SubSeq(s, i, i)]

\* The string made of a sequence of characters (or of strings).
RECURSIVE Cat(_)
Cat(cs) == IF cs = <<>> THEN "" ELSE Head(cs) \o Cat(Tail(cs))

UpperLetters == Str("ABCDEFGHIJKLMNOPQRSTUVWXYZ")
LowerLetters == Str("abcdefghijklmnopqrstuvwxyz")
DigitChars == Str("0123456789")

Range(f) == {f[i] : i \in DOMAIN f}

Upper == Range(UpperLetters)
Lower == Range(LowerLetters)
Digit == Range(DigitChars)
Letter == Upper \cup Lower
WhiteSpace == {" "}

IndexOf(c, cs) == CHOOSE i \in DOMAIN cs : cs[i] = c

\* String.prototype.charCodeAt for the characters of the formula language.
charCode(c) ==
  IF c \in Upper THEN 64 + IndexOf(c, UpperLetters)
  ELSE IF c \in Lower THEN 96 + IndexOf(c, LowerLetters)
  ELSE IF c \in Digit THEN 47 + IndexOf(c, DigitChars)
  ELSE 0

DigitVal(c) == IndexOf(c, DigitChars) - 1

toUpperCase(c) == IF c \in Lower THEN UpperLetters[IndexOf(c, LowerLetters)] ELSE c

\* String.prototype.startsWith
startsWith(cs, prefix) ==
  /\ Len(cs) >= Len(prefix)
  /\ SubSeq(cs, 1, Len(prefix)) = prefix

\* The part of cs from index i on (String.prototype.substring(i - 1)).
From(cs, i) == SubSeq(cs, i, Len(cs))

RECURSIVE trimStart(_)
trimStart(cs) ==
  IF cs # <<>> /\ Head(cs) \in WhiteSpace THEN trimStart(Tail(cs)) ELSE cs

RECURSIVE trimEnd(_)
trimEnd(cs) ==
  IF cs # <<>> /\ cs[Len(cs)] \in WhiteSpace
    THEN trimEnd(SubSeq(cs, 1, Len(cs) - 1))
    ELSE cs

\* String.prototype.trim
trim(cs) == trimEnd(trimStart(cs))

\* The first index j >= i of cs whose character is not in set (Len(cs) + 1
\* when there is none): the end of a greedy run [set]* starting at i.
RECURSIVE RunEnd(_, _, _)
RunEnd(cs, i, set) ==
  IF i <= Len(cs) /\ cs[i] \in set THEN RunEnd(cs, i + 1, set) ELSE i

(***************************************************************************)
(* JavaScript numbers and booleans                                         *)
(*                                                                         *)
(* k = "fin": the rational n / d in lowest terms, d > 0 a power of two, so *)
(* that the double holds it exactly; z marks the negative zero.            *)
(* k = "inf": n is the sign.  k = "nan".  k = "bool": n is 1 for true and  *)
(* 0 for false.  k = "approx": a double that is the rounding of a rational *)
(* it cannot hold exactly (1 / 3, 0.1); its digits are not modelled, and   *)
(* neither is anything computed from it.                                   *)
(***************************************************************************)

Abs(n) == IF n < 0 THEN -n ELSE n

RECURSIVE GCD(_, _)
GCD(a, b) == IF b = 0 THEN a ELSE GCD(b, a % b)

RECURSIVE IsPowerOfTwo(_)
IsPowerOfTwo(d) == d = 1 \/ (d % 2 = 0 /\ IsPowerOfTwo(d \div 2))

Approx == [k |-> "approx", n |-> 0, d |-> 1, z |-> FALSE]

Fin(n, d) ==
  LET g == GCD(Abs(n), d)
  IN  IF IsPowerOfTwo(d \div g)
        THEN [k |-> "fin", n |-> n \div g, d |-> d \div g, z |-> FALSE]
        ELSE Approx

Zero(neg) == [k |-> "fin", n |-> 0, d |-> 1, z |-> neg]
Inf(neg) == [k |-> "inf", n |-> IF neg THEN -1 ELSE 1, d |-> 1, z |-> FALSE]
NaN == [k |-> "nan", n |-> 0, d |-> 1, z |-> FALSE]
Bool(b) == [k |-> "bool", n |-> IF b THEN 1 ELSE 0, d |-> 1, z |-> FALSE]

isNaN(x) == x.k = "nan"
IsZero(x) == x.k = "fin" /\ x.n = 0
IsNeg(x) == x.n < 0 \/ (IsZero(x) /\ x.z)

\* ToNumber: a boolean operand of an arithmetic operator counts as 1 or 0.
ToNumber(x) == IF x.k = "bool" THEN Fin(x.n, 1) ELSE x

Negate(x) ==
  CASE x.k = "nan" -> NaN
    [] x.k = "approx" -> Approx
    [] x.k = "inf" -> Inf(~IsNeg(x))
    [] IsZero(x) -> Zero(~x.z)
    [] OTHER -> Fin(-x.n, x.d)

Add(x, y) ==
  CASE x.k = "nan" \/ y.k = "nan" -> NaN
    [] x.k = "approx" \/ y.k = "approx" -> Approx
    [] x.k = "inf" /\ y.k = "inf" -> IF x.n = y.n THEN x ELSE NaN
    [] x.k = "inf" -> x
    [] y.k = "inf" -> y
    [] IsZero(x) /\ IsZero(y) -> Zero(x.z /\ y.z)
    [] OTHER -> Fin(x.n * y.d + y.n * x.d, x.d * y.d)

Subtract(x, y) == Add(x, Negate(y))

Multiply(x, y) ==
  LET neg == IsNeg(x) # IsNeg(y)
  IN  CASE x.k = "nan" \/ y.k = "nan" -> NaN
        [] x.k = "approx" \/ y.k = "approx" -> Approx
        [] x.k = "inf" \/ y.k = "inf" ->
             IF IsZero(x) \/ IsZero(y) THEN NaN ELSE Inf(neg)
        [] IsZero(x) \/ IsZero(y) -> Zero(neg)
        [] OTHER -> Fin(x.n * y.n, x.d * y.d)

Divide(x, y) ==
  LET neg == IsNeg(x) # IsNeg(y)
  IN  CASE x.k = "nan" \/ y.k = "nan" -> NaN
        [] x.k = "approx" \/ y.k = "approx" -> Approx
        [] x.k = "inf" -> IF y.k = "inf" THEN NaN ELSE Inf(neg)
        [] y.k = "inf" -> Zero(neg)
        [] IsZero(y) -> IF IsZero(x) THEN NaN ELSE Inf(neg)
        [] IsZero(x) -> Zero(neg)
        [] OTHER -> Fin((IF y.n < 0 THEN -1 ELSE 1) * x.n * y.d, x.d * Abs(y.n))

\* The value of a run of decimal digits.
RECURSIVE DigitsValue(_)
DigitsValue(ds) ==
  IF ds = <<>> THEN 0
  ELSE 10 * DigitsValue(SubSeq(ds, 1, Len(ds) - 1)) + DigitVal(ds[Len(ds)])

RECURSIVE Pow10(_)
Pow10(e) == IF e = 0 THEN 1 ELSE 10 * Pow10(e - 1)

\* The decimal digits of a natural number.
RECURSIVE NatDigits(_)
NatDigits(n) ==
  IF n < 10 THEN <<DigitChars[n + 1]>>
  ELSE NatDigits(n \div 10) \o <<DigitChars[(n % 10) + 1]>>

\* The digits after the decimal point of r / d (0 <= r < d, d a power of
\* two), by long division, which ends.
RECURSIVE FracDigits(_, _)
FracDigits(r, d) ==
  IF r = 0 THEN <<>>
  ELSE <<DigitChars[((10 * r) \div d) + 1]>> \o FracDigits((10 * r) % d, d)

\* String(x) for a number or a boolean (Number::toString, radix 10).  The
\* digits of an approximate double are not modelled: "~" stands for them, a
\* character that is read back as unmodelled.
NumToString(x) ==
  CASE x.k = "nan" -> Str("NaN")
    [] x.k = "approx" -> Str("~")
    [] x.k = "inf" -> IF IsNeg(x) THEN Str("-Infinity") ELSE Str("Infinity")
    [] x.k = "bool" -> IF x.n = 1 THEN Str("true") ELSE Str("false")
    [] OTHER ->
         LET a == Abs(x.n)
             whole == NatDigits(a \div x.d)
             frac == FracDigits(a % x.d, x.d)
         IN  (IF x.n < 0 THEN <<"-">> ELSE <<>>)
               \o whole
               \o (IF frac = <<>> THEN <<>> ELSE <<".">> \o frac)

\* parseInt of a run of decimal digits (the row part of an address).
parseInt(ds) == DigitsValue(ds)

\* parseFloat: leading white space, an optional sign, then the longest prefix
\* that is a decimal literal (digits, optionally a point and digits) or
\* Infinity; NaN when there is none.
parseFloat(cs) ==
  LET t == trimStart(cs)
      signed == t # <<>> /\ Head(t) \in {"+", "-"}
      neg == signed /\ Head(t) = "-"
      u == IF signed THEN Tail(t) ELSE t
      iEnd == RunEnd(u, 1, Digit)
      hasPoint == iEnd <= Len(u) /\ u[iEnd] = "."
      fEnd == IF hasPoint THEN RunEnd(u, iEnd + 1, Digit) ELSE iEnd
      int == SubSeq(u, 1, iEnd - 1)
      frac == IF hasPoint THEN SubSeq(u, iEnd + 1, fEnd - 1) ELSE <<>>
      mag == Fin(DigitsValue(int \o frac), Pow10(Len(frac)))
  IN  IF startsWith(u, Str("Infinity")) THEN Inf(neg)
      ELSE IF int = <<>> /\ frac = <<>> THEN NaN
      ELSE IF mag.n = 0 THEN Zero(neg)
      ELSE IF neg THEN Negate(mag) ELSE mag

(***************************************************************************)
(* The sheet snapshot                                                      *)
(*                                                                         *)
(* SpreadsheetData maps the key `${row}-${col}` to the raw content of the  *)
(* cell; here the key is the pair <<row, col>> and a key that is not in    *)
(* the domain is an absent property.                                       *)
(***************************************************************************)

Key(row, col) == <<row, col>>

\* data[key] || '0': an absent cell and an empty cell both read as '0'.
OrZero(d, key) ==
  IF key \in DOMAIN d /\ d[key] # "" THEN Str(d[key]) ELSE Str("0")

\* getCellValue: the content handed to the renderer, '' for an absent cell.
getCellValue(d, row, col) ==
  IF Key(row, col) \in DOMAIN d /\ d[Key(row, col)] # ""
    THEN d[Key(row, col)]
    ELSE ""

(***************************************************************************)
(* First pass: bare cell references, /([A-Z]+)(\d+)/g                      *)
(***************************************************************************)

\* A referenced formula put in place of the reference as its own text: what
\* an evaluator that follows references would start from.
substitutedTextInlined(cellValue) ==
  IF startsWith(cellValue, Str("=")) THEN From(cellValue, 2)
  ELSE IF isNaN(parseFloat(cellValue)) THEN Str("0")
  ELSE NumToString(parseFloat(cellValue))

\* The text put in place of a reference to a cell that holds cellValue: '0'
\* for a formula and for what does not parse as a number.
substitutedText(cellValue) ==
  IF startsWith(cellValue, Str("=")) THEN Str("0")
  ELSE IF isNaN(parseFloat(cellValue)) THEN Str("0")
  ELSE NumToString(parseFloat(cellValue))

\* The callback of the first replace: the text put in place of one match.
cellRefReplace(col, rowNum, d) ==
  LET rowIdx == parseInt(rowNum) - 1
      colIdx == charCode(col[1]) - 65
  IN  substitutedText(OrZero(d, Key(rowIdx, colIdx)))

\* A match of cellRefRegex starting exactly at index i: a greedy run of
\* upper-case letters followed by a greedy run of digits.
cellRefMatch(cs, i) ==
  LET j == RunEnd(cs, i, Upper)
      k == RunEnd(cs, j, Digit)
  IN  [ok |-> j > i /\ k > j,
       col |-> SubSeq(cs, i, j - 1),
       rowNum |-> SubSeq(cs, j, k - 1),
       end |-> k]

\* expr.replace(cellRefRegex, callback), scanning from index i.
RECURSIVE replaceCellRefs(_, _, _)
replaceCellRefs(cs, i, d) ==
  IF i > Len(cs) THEN <<>>
  ELSE LET m == cellRefMatch(cs, i)
       IN  IF m.ok
             THEN cellRefReplace(m.col, m.rowNum, d) \o replaceCellRefs(cs, m.end, d)
             ELSE <<cs[i]>> \o replaceCellRefs(cs, i + 1, d)

(***************************************************************************)
(* Second and third pass: SUM(<cell>:<cell>) and AVERAGE(<cell>:<cell>),   *)
(* /SUM\(([A-Z]+)(\d+):([A-Z]+)(\d+)\)/gi and the same for AVERAGE         *)
(***************************************************************************)

\* The body of the two nested loops: one cell added to the running sum and
\* count unless it is a formula or does not parse as a number.
accumulate(d, r, c, acc) ==
  LET val == OrZero(d, Key(r, c))
      num == parseFloat(val)
  IN  IF ~startsWith(val, Str("=")) /\ ~isNaN(num)
        THEN [sum |-> Add(acc.sum, num), count |-> acc.count + 1]
        ELSE acc

\* for (c = c; c <= endColIdx; c++)
RECURSIVE loopCols(_, _, _, _, _)
loopCols(d, r, c, endColIdx, acc) ==
  IF c > endColIdx THEN acc
  ELSE loopCols(d, r, c + 1, endColIdx, accumulate(d, r, c, acc))

\* for (r = r; r <= endRowIdx; r++) for (c = startColIdx; ...)
RECURSIVE loopRows(_, _, _, _, _, _)
loopRows(d, r, endRowIdx, startColIdx, endColIdx, acc) ==
  IF r > endRowIdx THEN acc
  ELSE loopRows(d, r + 1, endRowIdx, startColIdx, endColIdx,
                loopCols(d, r, startColIdx, endColIdx, acc))

\* The sum and the count gathered over the range as written: no corner is
\* exchanged, so a range whose start lies after its end gathers nothing.
gather(startCol, startRow, endCol, endRow, d) ==
  LET startRowIdx == parseInt(startRow) - 1
      startColIdx == charCode(startCol[1]) - 65
      endRowIdx == parseInt(endRow) - 1
      endColIdx == charCode(endCol[1]) - 65
  IN  loopRows(d, startRowIdx, endRowIdx, startColIdx, endColIdx,
               [sum |-> Zero(FALSE), count |-> 0])

\* The callback of the SUM replace.
sumReplace(startCol, startRow, endCol, endRow, d) ==
  NumToString(gather(startCol, startRow, endCol, endRow, d).sum)

\* The callback of the AVERAGE replace.
avgReplace(startCol, startRow, endCol, endRow, d) ==
  LET g == gather(startCol, startRow, endCol, endRow, d)
  IN  IF g.count > 0
        THEN NumToString(Divide(g.sum, Fin(g.count, 1)))
        ELSE Str("0")

\* Whether cs holds, from index i, the text name in either case.
matchesIgnoreCase(cs, i, name) ==
  /\ i + Len(name) - 1 <= Len(cs)
  /\ \A n \in 1..Len(name) : toUpperCase(cs[i + n - 1]) = name[n]

\* A match of name ([A-Z]+)(\d+):([A-Z]+)(\d+)\) starting exactly at index i,
\* where the i flag lets [A-Z] match a letter of either case.
rangeMatch(cs, i, name) ==
  LET a == i + Len(name)
      b == RunEnd(cs, a, Letter)
      c == RunEnd(cs, b, Digit)
      e == RunEnd(cs, c + 1, Letter)
      f == RunEnd(cs, e, Digit)
  IN  [ok |-> /\ matchesIgnoreCase(cs, i, name)
              /\ b > a /\ c > b
              /\ c <= Len(cs) /\ cs[c] = ":"
              /\ e > c + 1 /\ f > e
              /\ f <= Len(cs) /\ cs[f] = ")",
       startCol |-> SubSeq(cs, a, b - 1),
       startRow |-> SubSeq(cs, b, c - 1),
       endCol |-> SubSeq(cs, c + 1, e - 1),
       endRow |-> SubSeq(cs, e, f - 1),
       end |-> f + 1]

\* expr.replace(sumRegex, callback), scanning from index i.
RECURSIVE replaceSums(_, _, _)
replaceSums(cs, i, d) ==
  IF i > Len(cs) THEN <<>>
  ELSE LET m == rangeMatch(cs, i, Str("SUM("))
       IN  IF m.ok
             THEN sumReplace(m.startCol, m.startRow, m.endCol, m.endRow, d)
                    \o replaceSums(cs, m.end, d)
             ELSE <<cs[i]>> \o replaceSums(cs, i + 1, d)

\* expr.replace(avgRegex, callback), scanning from index i.
RECURSIVE replaceAverages(_, _, _)
replaceAverages(cs, i, d) ==
  IF i > Len(cs) THEN <<>>
  ELSE LET m == rangeMatch(cs, i, Str("AVERAGE("))
       IN  IF m.ok
             THEN avgReplace(m.startCol, m.startRow, m.endCol, m.endRow, d)
                    \o replaceAverages(cs, m.end, d)
             ELSE <<cs[i]>> \o replaceAverages(cs, i + 1, d)

(***************************************************************************)
(* The arithmetic step: Function(`"use strict"; return (${expr})`)()       *)
(*                                                                         *)
(* The text handed to the Function constructor is read as JavaScript.  The *)
(* fragment modelled is the one the formulas considered here can produce:  *)
(* decimal literals, identifiers, the four arithmetic operators,           *)
(* parentheses, white space and comments.  A construct outside it (a       *)
(* string or regular-expression literal, an exponent, a property access,   *)
(* an assignment or comparison) is lexed as the token "unmodelled", so     *)
(* that no value is ever invented for it.                                  *)
(***************************************************************************)

Tok(t, s, v) == [t |-> t, s |-> s, v |-> v]
Punct(c) == Tok("punct", c, NaN)
BadTok == Tok("bad", "", NaN)
UnmodelledTok == Tok("unmodelled", "", NaN)

\* The index just after the first "*/" at or after i, 0 when there is none.
RECURSIVE commentEnd(_, _)
commentEnd(cs, i) ==
  IF i + 1 > Len(cs) THEN 0
  ELSE IF cs[i] = "*" /\ cs[i + 1] = "/" THEN i + 2
  ELSE commentEnd(cs, i + 1)

\* A decimal literal starting at i (a digit, or a point followed by a digit).
\* In strict mode a literal with a leading 0 before another digit is a
\* SyntaxError, and so is a literal directly followed by an identifier.
numericLiteral(cs, i) ==
  LET iEnd == RunEnd(cs, i, Digit)
      hasPoint == iEnd <= Len(cs) /\ cs[iEnd] = "."
      fEnd == IF hasPoint THEN RunEnd(cs, iEnd + 1, Digit) ELSE iEnd
      int == SubSeq(cs, i, iEnd - 1)
      frac == IF hasPoint THEN SubSeq(cs, iEnd + 1, fEnd - 1) ELSE <<>>
      next == IF fEnd <= Len(cs) THEN cs[fEnd] ELSE " "
      legacy == Len(int) >= 2 /\ int[1] = "0"
      other == \/ next \in {"e", "E", "n", "_"}
               \/ (int = <<"0">> /\ ~hasPoint /\ next \in {"x", "X", "b", "B", "o", "O"})
  IN  [end |-> fEnd,
       tok |-> IF other THEN UnmodelledTok
               ELSE IF legacy \/ next \in Letter THEN BadTok
               ELSE Tok("num", "", Fin(DigitsValue(int \o frac), Pow10(Len(frac))))]

\* The call of the global function Math.random, written without white
\* space; it is lexed as one token.
RandomCall == Str("Math.random()")

\* The tokens of cs from index i on; operand tells whether the token before
\* ends an operand, which is what makes a following "/" a division.
RECURSIVE lex(_, _, _)
lex(cs, i, operand) ==
  IF i > Len(cs) THEN <<>>
  ELSE LET c == cs[i]
           n == IF i < Len(cs) THEN cs[i + 1] ELSE " "
       IN  CASE c \in WhiteSpace -> lex(cs, i + 1, operand)
             [] c = "/" /\ n = "/" -> <<>>
             [] c = "/" /\ n = "*" ->
                  LET e == commentEnd(cs, i + 2)
                  IN  IF e = 0 THEN <<BadTok>> ELSE lex(cs, e, operand)
             [] c \in Digit \/ (c = "." /\ n \in Digit) ->
                  LET lit == numericLiteral(cs, i)
                  IN  <<lit.tok>> \o lex(cs, lit.end, TRUE)
             [] c \in Letter /\ startsWith(From(cs, i), RandomCall) ->
                  <<Tok("random", "", NaN)>> \o lex(cs, i + Len(RandomCall), TRUE)
             [] c \in Letter ->
                  LET e == RunEnd(cs, i, Letter \cup Digit)
                  IN  <<Tok("id", Cat(SubSeq(cs, i, e - 1)), NaN)>> \o lex(cs, e, TRUE)
             [] c \in {"+", "-"} ->
                  IF n = c THEN <<BadTok>> \o lex(cs, i + 2, FALSE)
                  ELSE IF n = "=" THEN <<UnmodelledTok>>
                  ELSE <<Punct(c)>> \o lex(cs, i + 1, FALSE)
             [] c = "*" ->
                  IF n \in {"*", "="} THEN <<UnmodelledTok>>
                  ELSE <<Punct(c)>> \o lex(cs, i + 1, FALSE)
             [] c = "/" ->
                  IF ~operand \/ n = "=" THEN <<UnmodelledTok>>
                  ELSE <<Punct(c)>> \o lex(cs, i + 1, FALSE)
             [] c = "(" -> <<Punct(c)>> \o lex(cs, i + 1, FALSE)
             [] c = ")" -> <<Punct(c)>> \o lex(cs, i + 1, TRUE)
             [] c = ":" -> <<BadTok>> \o lex(cs, i + 1, FALSE)
             [] OTHER -> <<UnmodelledTok>>

\* The identifiers bound where the Function body runs, among those the
\* formulas considered here can spell; any other one is a ReferenceError.
globalValue(name) ==
  CASE name = "true" -> Bool(TRUE)
    [] name = "false" -> Bool(FALSE)
    [] name = "NaN" -> NaN
    [] name = "Infinity" -> Inf(FALSE)

isGlobal(name) == name \in {"true", "false", "NaN", "Infinity"}

Fail == [ok |-> FALSE, v |-> NaN, i |-> 0]
Ok(v, i) == [ok |-> TRUE, v |-> v, i |-> i]

isPunct(ts, i, set) == i <= Len(ts) /\ ts[i].t = "punct" /\ ts[i].s \in set

\* The value of left op right, both operands converted to numbers.
binary(op, left, right) ==
  CASE op = "+" -> Add(ToNumber(left), ToNumber(right))
    [] op = "-" -> Subtract(ToNumber(left), ToNumber(right))
    [] op = "*" -> Multiply(ToNumber(left), ToNumber(right))
    [] op = "/" -> Divide(ToNumber(left), ToNumber(right))

RECURSIVE additiveExpression(_, _)
RECURSIVE additiveRest(_, _, _)
RECURSIVE additiveStep(_, _, _, _)
RECURSIVE multiplicativeExpression(_, _)
RECURSIVE multiplicativeRest(_, _, _)
RECURSIVE multiplicativeStep(_, _, _, _)
RECURSIVE unaryExpression(_, _)
RECURSIVE primaryExpression(_, _)

\* The ")" that must follow the expression e parsed after a "(".
closeParenthesis(ts, e) ==
  IF e.ok /\ isPunct(ts, e.i, {")"}) THEN Ok(e.v, e.i + 1) ELSE Fail

\* A literal, a bound identifier or a parenthesised expression.
primaryExpression(ts, i) ==
  IF i > Len(ts) THEN Fail
  ELSE CASE ts[i].t = "num" -> Ok(ts[i].v, i + 1)
         [] ts[i].t = "id" ->
              IF isGlobal(ts[i].s) THEN Ok(globalValue(ts[i].s), i + 1) ELSE Fail
         [] isPunct(ts, i, {"("}) ->
              closeParenthesis(ts, additiveExpression(ts, i + 1))
         [] OTHER -> Fail

\* A primary expression p followed by "(" is a call of something that is no
\* function (a TypeError) or a SyntaxError.
notCalled(ts, p) == IF p.ok /\ isPunct(ts, p.i, {"("}) THEN Fail ELSE p

callExpression(ts, i) == notCalled(ts, primaryExpression(ts, i))

\* The unary operator op applied to the operand u parsed after it.
applyUnary(op, u) ==
  IF ~u.ok THEN Fail
  ELSE IF op = "-" THEN Ok(Negate(ToNumber(u.v)), u.i)
  ELSE Ok(ToNumber(u.v), u.i)

unaryExpression(ts, i) ==
  IF isPunct(ts, i, {"+", "-"})
    THEN applyUnary(ts[i].s, unaryExpression(ts, i + 1))
    ELSE callExpression(ts, i)

\* left op r, r being the operand parsed after the operator, and what
\* follows at the same level: operators of one level associate to the left.
multiplicativeStep(ts, op, left, r) ==
  IF r.ok THEN multiplicativeRest(ts, r.i, binary(op, left, r.v)) ELSE Fail

multiplicativeRest(ts, i, left) ==
  IF isPunct(ts, i, {"*", "/"})
    THEN multiplicativeStep(ts, ts[i].s, left, unaryExpression(ts, i + 1))
    ELSE Ok(left, i)

\* The operators * and / applied to the first operand u.
multiplicativeFrom(ts, u) ==
  IF u.ok THEN multiplicativeRest(ts, u.i, u.v) ELSE Fail

multiplicativeExpression(ts, i) == multiplicativeFrom(ts, unaryExpression(ts, i))

additiveStep(ts, op, left, r) ==
  IF r.ok THEN additiveRest(ts, r.i, binary(op, left, r.v)) ELSE Fail

additiveRest(ts, i, left) ==
  IF isPunct(ts, i, {"+", "-"})
    THEN additiveStep(ts, ts[i].s, left, multiplicativeExpression(ts, i + 1))
    ELSE Ok(left, i)

\* The operators + and - applied to the first operand m.
additiveFrom(ts, m) ==
  IF m.ok THEN additiveRest(ts, m.i, m.v) ELSE Fail

additiveExpression(ts, i) == additiveFrom(ts, multiplicativeExpression(ts, i))

\* The outcome of the Function call for the tokens ts and their parse e.
outcome(ts, e) ==
  IF \E i \in DOMAIN ts : ts[i].t = "unmodelled"
    THEN [kind |-> "unmodelled", v |-> NaN]
  ELSE IF (\A i \in DOMAIN ts : ts[i].t # "bad") /\ e.ok /\ e.i = Len(ts) + 1
    THEN [kind |-> IF e.v.k = "approx" THEN "unmodelled" ELSE "value", v |-> e.v]
  ELSE [kind |-> "throw", v |-> NaN]

parse(ts) == outcome(ts, additiveExpression(ts, 1))

\* The global state that the body of the Function can reach: the number
\* that Math.random() returns next, and the property k of the global object,
\* which no code of the page defines.
Unbound == [k |-> "unbound", n |-> 0, d |-> 1, z |-> FALSE]
Globals(random, k) == [random |-> random, k |-> k]

\* The tokens with the global state read: a call of Math.random() is the
\* number it returns, and the identifier k is its value once it is bound.
bind(ts, g) ==
  [i \in DOMAIN ts |->
     IF ts[i].t = "random" THEN Tok("num", "", g.random)
     ELSE IF ts[i].t = "id" /\ ts[i].s = "k" /\ g.k # Unbound
       THEN Tok("num", "", g.k)
     ELSE ts[i]]

\* Two programs outside the arithmetic fragment, taken as wholes: one never
\* returns, the other assigns 7 to the global k and then throws a
\* ReferenceError on the unbound u.
Looping == Str("(()=>{for(;;);})()")
Writing == Str("(globalThis.k=7)/u")

\* The outcome r of a call that leaves the global state g.
returned(r, g) == [kind |-> r.kind, v |-> r.v, g |-> g]

\* Function(`"use strict"; return (${expr})`)() run in the global state g:
\* the value returned (kind "value"), an exception thrown by the
\* constructor (a SyntaxError) or by the call (kind "throw"), or no return
\* at all (kind "loops"); g is the global state left.
runFunction(expr, g) ==
  IF expr = Looping THEN [kind |-> "loops", v |-> NaN, g |-> g]
  ELSE IF expr = Writing
    THEN [kind |-> "throw", v |-> NaN, g |-> Globals(g.random, Fin(7, 1))]
  ELSE returned(parse(bind(lex(<<"(">> \o expr \o <<")">>, 1, FALSE), g)), g)

(***************************************************************************)
(* evaluateFormula and getDisplayValue as functions of the content, the    *)
(* snapshot and the global state                                           *)
(***************************************************************************)

ErrorMarker == "#ERROR"

\* let expr = formula.substring(1).trim()
workingExpression(formula) == Cat(trim(From(Str(formula), 2)))

cellRefPass(e, d) == Cat(replaceCellRefs(Str(e), 1, d))
sumPass(e, d) == Cat(replaceSums(Str(e), 1, d))
averagePass(e, d) == Cat(replaceAverages(Str(e), 1, d))

\* The expression after the three replace calls, in the order of the code.
substituted(formula, d) ==
  averagePass(sumPass(cellRefPass(workingExpression(formula), d), d), d)

\* The same without the catch clause doing its work: the failure is shown
\* as the text of no value.
arithmeticUncaught(e, g) ==
  LET r == runFunction(Str(e), g)
  IN  IF r.kind = "value" THEN Cat(NumToString(r.v)) ELSE "undefined"

\* try { return String(Function(...)()) } catch (error) { return '#ERROR' }
arithmetic(e, g) ==
  LET r == runFunction(Str(e), g)
  IN  IF r.kind = "value" THEN Cat(NumToString(r.v)) ELSE ErrorMarker

\* evaluateFormula without its first test: every content is taken for a
\* formula.
evaluateFormulaUnguarded(formula, d, g) ==
  arithmetic(substituted(formula, d), g)

\* The value returned by a call that returns, in the global state g.
evaluateFormula(formula, d, g) ==
  IF ~startsWith(Str(formula), Str("=")) THEN formula
  ELSE arithmetic(substituted(formula, d), g)

getDisplayValue(v, d, g) ==
  IF v = "" THEN ""
  ELSE IF startsWith(Str(v), Str("=")) THEN evaluateFormula(v, d, g)
  ELSE v

(***************************************************************************)
(* The contents and the snapshots the evaluation is run on                 *)
(***************************************************************************)

\* The longest content generated, in tokens.
MaxTokens == 3

\* One upper-case column letter, two digits, two operators, the parentheses
\* and one lower-case letter.
Tokens == {"A", "1", "0", "+", "-", "(", ")", "a"}

RECURSIVE Words(_)
Words(n) ==
  IF n = 0 THEN {""}
  ELSE LET shorter == Words(n - 1)
       IN  shorter \cup {w \o t : w \in shorter, t \in Tokens}

\* The examples of the specification and formulas around them.
Samples ==
  {"=SUM(A1:A3)", "=AVERAGE(A1:A2)", "=AVERAGE(A1:A3)", "=1+2*3", "=1/0",
   "=0/0", "=1/A1", "=A2/A1", "=A1+", "=B1", "=A1", "=AA1", "=AB1", "=BA1",
   "=A0", "=SUM(A0:A2)", "=SUM(A1:B2)", "=SUM(B2:A1)", "=true", "=1-A2",
   "=A1*2", "= A1 ", "=sum(a1:a2)", "=sum(a1:a3)", "=sum(a2:a1)",
   "=sum(a0:a2)", "=average(a1:a2)", "=average(a3:a4)",
   "=sum(a1:a2)+A1", "=SUM(Ab1:Ab3)", "=AVERAGE(Ab1:Ab2)",
   "1=2", "12", "x", "SUM(A1:A3)", " =1",
   "=Math.random()", "=Math.random()*4+A1", "=k", "=k+1",
   "=(()=>{for(;;);})()", "=(globalThis.k=7)/u"}

Contents ==
  Words(MaxTokens) \cup {"=" \o w : w \in Words(MaxTokens)} \cup Samples

A1 == Key(0, 0)
A2 == Key(1, 0)
A3 == Key(2, 0)
B1 == Key(0, 1)
\* The cells a lower-case a1, a2, a3 resolves to: charCode("a") - 65 = 32.
AG1 == Key(0, 32)
AG2 == Key(1, 32)
AG3 == Key(2, 32)
\* The cell the generated content is put in.
C1 == Key(0, 2)

Blank == [k \in {} |-> ""]
SumSheet == (A1 :> "1") @@ (A2 :> "2") @@ (A3 :> "x")
AverageSheet == (A1 :> "4") @@ (A2 :> "6")
CycleSheet == (A1 :> "=B1") @@ (B1 :> "=A1")
WideSheet == (A1 :> "1") @@ (AG1 :> "4") @@ (AG2 :> "6") @@ (AG3 :> "x")
MixedSheet == (A1 :> "=2") @@ (A2 :> "-1") @@ (AG1 :> "=A1+1") @@ (AG2 :> "5")
GlobalSheet == (A1 :> "=k") @@ (B1 :> "=(globalThis.k=7)/u") @@ (A2 :> "=k+1")

Snapshots ==
  {Blank, SumSheet, AverageSheet, CycleSheet, WideSheet, MixedSheet,
   GlobalSheet}

\* updateCell: { ...prev, [key]: String(value) }
updateCell(d, key, v) == [k \in DOMAIN d \cup {key} |-> IF k = key THEN v ELSE d[k]]

(***************************************************************************)
(* The state machine: the cells of one snapshot are rendered in turn       *)
(***************************************************************************)

\* The grid rendered: COLUMN_COUNT columns (A to J) and ROW_COUNT rows.
COLUMN_COUNT == 10
ROW_COUNT == 50

\* The cells of the grid followed here: those that hold a content, and C1.
Rendered(d) ==
  {k \in DOMAIN d \cup {C1} :
     k[1] \in 0..(ROW_COUNT - 1) /\ k[2] \in 0..(COLUMN_COUNT - 1)}

\* The order of the render loop: row by row, and by column within a row.
Before(a, b) == a[1] < b[1] \/ (a[1] = b[1] /\ a[2] < b[2])

FirstOf(S) == CHOOSE k \in S : \A o \in S : o = k \/ Before(k, o)

RenderedAfter(d, k) == {o \in Rendered(d) : Before(k, o)}

\* The numbers that Math.random() is taken to return, and the one it returns
\* at its first call.
RandomValues == {Fin(1, 4), Fin(3, 4)}
FirstRandom == Fin(1, 4)

\* Whether the expression calls Math.random().
callsRandom(e) ==
  \E i \in 1..Len(e) : startsWith(From(Str(e), i), RandomCall)

\* The global states that a call of the Function on e can leave behind,
\* g being the one its outcome gives: each call of Math.random() changes the
\* number that the next one returns.
GlobalsAfter(e, g) ==
  IF callsRandom(e) THEN {Globals(r, g.k) : r \in RandomValues} ELSE {g}

VARIABLES
  data,     \* the snapshot: spreadsheetData
  cur,      \* the cell being rendered: <<rowIdx, colIdx>>
  value,    \* its raw content: cells[rowIdx][colIdx]
  expr,     \* evaluateFormula's working expression
  pc,       \* where the rendering of the cell stands
  result,   \* the display value returned for the cell
  env,      \* the global state of the page that a Function body can reach
  history,        \* the snapshots kept for undo and redo
  historyIndex,   \* the index, from 0, of the current one
  isUpdatingRef,  \* isUpdatingRef.current
  input,            \* the text in the chat panel's input box
  isLoading,        \* the chat panel waits for processMessage
  request,          \* the message handed to processMessage
  response,         \* what processMessage answered to it
  messages,         \* the messages of the chat panel: who wrote each
  pendingChanges,   \* the changes shown in the diff preview
  showDiffPreview,  \* the diff preview is open
  isProcessing,     \* DiffPreview's isProcessing
  timers,           \* the timeouts set by the App and not run yet
  call,             \* the arguments of a call of parseFillPattern
  fillActions       \* what the call returned

historyVars == <<history, historyIndex, isUpdatingRef>>
renderVars == <<cur, value, expr, pc, result, env>>
panelVars == <<input, isLoading, request, response, messages>>
previewVars == <<pendingChanges, showDiffPreview, isProcessing, timers>>
fillVars == <<call, fillActions>>
chatVars == <<panelVars, previewVars, fillVars>>
vars == <<data, cur, value, expr, pc, result, env, history, historyIndex,
          isUpdatingRef, input, isLoading, request, response, messages,
          pendingChanges, showDiffPreview, isProcessing, timers, call,
          fillActions>>

\* The history of a page just loaded: useState([{ data: {}, ... }]) and
\* useState(0).
NoHistory ==
  /\ history = <<Blank>>
  /\ historyIndex = 0
  /\ isUpdatingRef = FALSE

\* The chat panel of a page just loaded: useState('') and useState(false),
\* nothing asked or answered, and the greeting as the one message.
NoResponse == [rule |-> "none", actions |-> <<>>]

NoPanel ==
  /\ input = ""
  /\ isLoading = FALSE
  /\ request = ""
  /\ response = NoResponse
  /\ messages = <<"greeting">>

\* The diff preview of a page just loaded: useState<PendingChange[]>([]) and
\* useState(false); no DiffPreview is mounted and no timeout is set.
NoPreview ==
  /\ pendingChanges = <<>>
  /\ showDiffPreview = FALSE
  /\ isProcessing = FALSE
  /\ timers = {}

\* No call of parseFillPattern is under way.
NoCall == [fillDesc |-> ""]
NotReturned == [returned |-> FALSE, actions |-> <<>>]
Returned(actions) == [returned |-> TRUE, actions |-> actions]

NoFill ==
  /\ call = NoCall
  /\ fillActions = NotReturned

NoChat ==
  /\ NoPanel
  /\ NoPreview
  /\ NoFill

Init ==
  /\ \E base \in Snapshots :
       \/ \E content \in Contents : data = updateCell(base, C1, content)
       \/ data = base
  /\ cur = FirstOf(Rendered(data))
  /\ value = getCellValue(data, cur[1], cur[2])
  /\ expr = ""
  /\ pc = "render"
  /\ result = ""
  /\ env = Globals(FirstRandom, Unbound)
  /\ NoHistory
  /\ NoChat

\* getDisplayValue: if (!value) return ''
RenderEmpty ==
  /\ pc = "render"
  /\ value = ""
  /\ result' = ""
  /\ pc' = "done"
  /\ UNCHANGED <<data, cur, value, expr, env>>
  /\ UNCHANGED <<historyVars, chatVars>>

\* getDisplayValue: return stringValue, for a content that is no formula
RenderLiteral ==
  /\ pc = "render"
  /\ value # ""
  /\ ~startsWith(Str(value), Str("="))
  /\ result' = value
  /\ pc' = "done"
  /\ UNCHANGED <<data, cur, value, expr, env>>
  /\ UNCHANGED <<historyVars, chatVars>>

\* getDisplayValue calls evaluateFormula, which strips the "=" and trims
EnterFormula ==
  /\ pc = "render"
  /\ startsWith(Str(value), Str("="))
  /\ expr' = workingExpression(value)
  /\ pc' = "cellRefs"
  /\ UNCHANGED <<data, cur, value, result, env>>
  /\ UNCHANGED <<historyVars, chatVars>>

\* The first pass keeping what it computed in the snapshot, under the key of
\* the rendered cell.
CellRefPassStoring ==
  /\ pc = "cellRefs"
  /\ expr' = cellRefPass(expr, data)
  /\ data' = updateCell(data, cur, expr')
  /\ pc' = "sums"
  /\ UNCHANGED <<cur, value, result, env>>
  /\ UNCHANGED <<historyVars, chatVars>>

\* expr = expr.replace(cellRefRegex, ...)
CellRefPass ==
  /\ pc = "cellRefs"
  /\ expr' = cellRefPass(expr, data)
  /\ pc' = "sums"
  /\ UNCHANGED <<data, cur, value, result, env>>
  /\ UNCHANGED <<historyVars, chatVars>>

\* expr = expr.replace(sumRegex, ...)
SumPass ==
  /\ pc = "sums"
  /\ expr' = sumPass(expr, data)
  /\ pc' = "averages"
  /\ UNCHANGED <<data, cur, value, result, env>>
  /\ UNCHANGED <<historyVars, chatVars>>

\* expr = expr.replace(avgRegex, ...)
AveragePass ==
  /\ pc = "averages"
  /\ expr' = averagePass(expr, data)
  /\ pc' = "arithmetic"
  /\ UNCHANGED <<data, cur, value, result, env>>
  /\ UNCHANGED <<historyVars, chatVars>>

\* return String(result), the Function call having returned
ArithmeticReturns ==
  /\ pc = "arithmetic"
  /\ runFunction(Str(expr), env).kind = "value"
  /\ result' = arithmetic(expr, env)
  /\ env' \in GlobalsAfter(expr, runFunction(Str(expr), env).g)
  /\ pc' = "done"
  /\ UNCHANGED <<data, cur, value, expr>>
  /\ UNCHANGED <<historyVars, chatVars>>

\* catch (error) { return '#ERROR' }
ArithmeticThrows ==
  /\ pc = "arithmetic"
  /\ runFunction(Str(expr), env).kind = "throw"
  /\ result' = arithmetic(expr, env)
  /\ env' \in GlobalsAfter(expr, runFunction(Str(expr), env).g)
  /\ pc' = "done"
  /\ UNCHANGED <<data, cur, value, expr>>
  /\ UNCHANGED <<historyVars, chatVars>>

\* The render loop goes on to the next cell of the grid.
NextCell ==
  /\ pc = "done"
  /\ RenderedAfter(data, cur) # {}
  /\ cur' = FirstOf(RenderedAfter(data, cur))
  /\ value' = getCellValue(data, cur'[1], cur'[2])
  /\ expr' = ""
  /\ result' = ""
  /\ pc' = "render"
  /\ UNCHANGED <<data, env>>
  /\ UNCHANGED <<historyVars, chatVars>>

\* The grid rendered to its last cell, the component is rendered again, as
\* after any change of its state (a click selecting a cell).
Rerender ==
  /\ pc = "done"
  /\ RenderedAfter(data, cur) = {}
  /\ cur' = FirstOf(Rendered(data))
  /\ value' = getCellValue(data, cur'[1], cur'[2])
  /\ expr' = ""
  /\ result' = ""
  /\ pc' = "render"
  /\ UNCHANGED <<data, env>>
  /\ UNCHANGED <<historyVars, chatVars>>

Next ==
  \/ RenderEmpty
  \/ RenderLiteral
  \/ EnterFormula
  \/ CellRefPass
  \/ SumPass
  \/ AveragePass
  \/ ArithmeticReturns
  \/ ArithmeticThrows
  \/ NextCell
  \/ Rerender

Spec == Init /\ [][Next]_vars

\* Every expression reached lies in the fragment of JavaScript modelled.
Modelled ==
  pc = "arithmetic" => runFunction(Str(expr), env).kind # "unmodelled"

(***************************************************************************)
(* The history of the sheet: App's updateCell, updateMultipleCells, import, *)
(* undo and redo                                                           *)
(*                                                                         *)
(* An entry of the history is the snapshot it holds; its timestamp is      *)
(* never read.  A handler runs with the history and the index of the       *)
(* rendering that created it; the handler of a file that finishes loading  *)
(* may be one created when the page was loaded.                            *)
(***************************************************************************)

\* if (newHistory.length > 50): the number of entries kept.
HistoryLimit == 50

\* addToHistory without the shift of the oldest entry.
addToHistoryUncapped(h, i, newData) ==
  [history |-> Append(SubSeq(h, 1, i + 1), newData),
   historyIndex |-> i + 1]

\* addToHistory pushing the snapshot after the whole history, the entries
\* after the index included.
addToHistoryKeepingBranch(h, i, newData) ==
  IF Len(h) + 1 > HistoryLimit
    THEN [history |-> Tail(Append(h, newData)), historyIndex |-> Len(h) - 1]
    ELSE [history |-> Append(h, newData), historyIndex |-> Len(h)]

\* addToHistory, isUpdatingRef.current being false: the history and the
\* index that it sets, h and i being those of its closure.
addToHistory(h, i, newData) ==
  IF i + 2 > HistoryLimit
    THEN [history |-> Tail(Append(SubSeq(h, 1, i + 1), newData)),
          historyIndex |-> i]
    ELSE [history |-> Append(SubSeq(h, 1, i + 1), newData),
          historyIndex |-> i + 1]

\* updates.forEach(... updated[key] = String(value)) on a copy of prev.
updateMultipleCells(d, updates) ==
  [k \in DOMAIN d \cup DOMAIN updates |->
     IF k \in DOMAIN updates THEN updates[k] ELSE d[k]]

\* What is typed, applied or imported here: one content for one cell.
Typed == "1"
Updates == {A1 :> Typed}
ImportedSheet == A1 :> Typed

\* The closures that an import can run with: that of the last rendering and
\* that of the page just loaded.
Closures ==
  {[history |-> history, historyIndex |-> historyIndex],
   [history |-> <<Blank>>, historyIndex |-> 0]}

\* The history set by a call of addToHistory made with the closure c.
Recorded(c, newData) ==
  /\ isUpdatingRef = FALSE
  /\ history' = addToHistory(c.history, c.historyIndex, newData).history
  /\ historyIndex' = addToHistory(c.history, c.historyIndex, newData).historyIndex
  /\ UNCHANGED isUpdatingRef

\* if (isUpdatingRef.current) return
NotRecorded ==
  /\ isUpdatingRef = TRUE
  /\ UNCHANGED historyVars

HistoryInit ==
  /\ data = Blank
  /\ NoHistory
  /\ cur = C1
  /\ value = ""
  /\ expr = ""
  /\ pc = "idle"
  /\ result = ""
  /\ env = Globals(FirstRandom, Unbound)
  /\ NoChat

UpdateCell ==
  /\ data' = updateCell(data, A1, Typed)
  /\ \/ Recorded([history |-> history, historyIndex |-> historyIndex], data')
     \/ NotRecorded
  /\ UNCHANGED <<renderVars, chatVars>>

UpdateMultipleCells ==
  /\ \E updates \in Updates : data' = updateMultipleCells(data, updates)
  /\ \/ Recorded([history |-> history, historyIndex |-> historyIndex], data')
     \/ NotRecorded
  /\ UNCHANGED <<renderVars, chatVars>>

\* reader.onload of importFromCSV and of the Excel import
Import ==
  /\ data' = ImportedSheet
  /\ \/ \E c \in Closures : Recorded(c, data')
     \/ NotRecorded
  /\ UNCHANGED <<renderVars, chatVars>>

Undo ==
  /\ historyIndex > 0
  /\ isUpdatingRef' = TRUE
  /\ historyIndex' = historyIndex - 1
  /\ data' = history[historyIndex' + 1]
  /\ UNCHANGED <<history, renderVars, chatVars>>

Redo ==
  /\ historyIndex < Len(history) - 1
  /\ isUpdatingRef' = TRUE
  /\ historyIndex' = historyIndex + 1
  /\ data' = history[historyIndex' + 1]
  /\ UNCHANGED <<history, renderVars, chatVars>>

\* setTimeout(() => { isUpdatingRef.current = false }, 0)
ResetUpdating ==
  /\ isUpdatingRef = TRUE
  /\ isUpdatingRef' = FALSE
  /\ UNCHANGED <<data, history, historyIndex, renderVars, chatVars>>

HistoryNext ==
  \/ UpdateCell
  \/ UpdateMultipleCells
  \/ Import
  \/ Undo
  \/ Redo
  \/ ResetUpdating

HistorySpec == HistoryInit /\ [][HistoryNext]_vars

(***************************************************************************)
(* The assistant: aiService.processMessage                                 *)
(*                                                                         *)
(* A regular expression is matched by walking the subject: every step      *)
(* takes the index where it starts and gives the index after what it       *)
(* consumed, 0 standing for failure.  The alternatives of each group of    *)
(* the patterns below exclude one another and each greedy run is followed  *)
(* by something its characters cannot begin, so that nothing is gained by  *)
(* backtracking, but for a final \s*(.+) or \s+(.+), which is spelt out.   *)
(* The messages are ASCII: the four Chinese template keywords cannot occur *)
(* in them and are not listed.  The text of the answer is not modelled.    *)
(***************************************************************************)

toLowerCaseChar(c) ==
  IF c \in Upper THEN LowerLetters[IndexOf(c, UpperLetters)] ELSE c

\* String.prototype.toLowerCase
toLowerCase(cs) == [i \in DOMAIN cs |-> toLowerCaseChar(cs[i])]

\* String.prototype.includes
includes(cs, part) ==
  \E i \in 1..(Len(cs) + 1) : startsWith(From(cs, i), part)

Least(S) == CHOOSE i \in S : \A j \in S : i <= j

\* A literal word, in either case (the i flag).
lit(cs, i, word) ==
  IF i # 0 /\ matchesIgnoreCase(cs, i, word) THEN i + Len(word) ELSE 0

\* (?:w1|w2|...): the first alternative that matches.
alt(cs, i, words) ==
  LET hits == {n \in DOMAIN words : lit(cs, i, words[n]) # 0}
  IN  IF hits = {} THEN 0 ELSE lit(cs, i, words[Least(hits)])

\* \s*
spaces(cs, i) == IF i = 0 THEN 0 ELSE RunEnd(cs, i, WhiteSpace)

\* \s+
someSpaces(cs, i) == IF spaces(cs, i) > i THEN spaces(cs, i) ELSE 0

\* [A-Z] under the i flag
letter(cs, i) == IF i # 0 /\ i <= Len(cs) /\ cs[i] \in Letter THEN i + 1 ELSE 0

\* \d+
digits(cs, i) == IF i # 0 /\ RunEnd(cs, i, Digit) > i THEN RunEnd(cs, i, Digit) ELSE 0

\* [^\s]+
RECURSIVE nonSpaces(_, _)
nonSpaces(cs, i) ==
  IF i = 0 \/ i > Len(cs) \/ cs[i] \in WhiteSpace THEN 0
  ELSE IF nonSpaces(cs, i + 1) = 0 THEN i + 1 ELSE nonSpaces(cs, i + 1)

\* x? : what x consumed if it matched, nothing otherwise.
optional(j, i) == IF j = 0 THEN i ELSE j

\* The index where a final (.+) starts after a run of white space from a to
\* b: at b when something follows; else the run gives its last character
\* back, if it can spare one (least is the length the run must keep).
finalGroup(cs, a, b, least) ==
  IF a = 0 \/ b = 0 THEN 0
  ELSE IF b <= Len(cs) THEN b
  ELSE IF b - a > least THEN b - 1
  ELSE 0

NoMatch == [ok |-> FALSE, g |-> <<>>]
Match(groups) == [ok |-> TRUE, g |-> groups]

\* String.prototype.match for a pattern without the g flag tries the indices
\* in turn: the least of those where the pattern matches, 0 (where no
\* pattern matches) when there is none.
firstMatch(starts) == IF starts = {} THEN 0 ELSE Least(starts)

\* ([A-Z])(\d+) from index i: the index after it.
cellAt(cs, i) == digits(cs, letter(cs, i))

templateKeywords == <<"template", "create", "generate", "make">>

isTemplateRequest(lowerMessage) ==
  \E n \in DOMAIN templateKeywords : includes(lowerMessage, Str(templateKeywords[n]))

\* /(?:set|put|make)\s*([A-Z])(\d+)\s*(?:to|=|as)\s*([^\s]+)/i
setValuePattern(cs, i) ==
  LET a == spaces(cs, alt(cs, i, <<Str("SET"), Str("PUT"), Str("MAKE")>>))
      b == cellAt(cs, a)
      c == spaces(cs, alt(cs, spaces(cs, b), <<Str("TO"), Str("="), Str("AS")>>))
      e == nonSpaces(cs, c)
  IN  IF e = 0 THEN NoMatch
      ELSE Match(<<SubSeq(cs, a, a), SubSeq(cs, a + 1, b - 1), SubSeq(cs, c, e - 1)>>)

\* /^([A-Z])(\d+)\s*=\s*(.+)$/i
directAssignmentPattern(cs) ==
  LET b == cellAt(cs, 1)
      c == lit(cs, spaces(cs, b), Str("="))
      e == finalGroup(cs, c, spaces(cs, c), 0)
  IN  IF e = 0 THEN NoMatch
      ELSE Match(<<SubSeq(cs, 1, 1), SubSeq(cs, 2, b - 1), From(cs, e)>>)

\* /(?:create|add|make)\s+(?:a\s+)?formula\s+in\s+([A-Z])(\d+)\s+(?:that|which|to)\s+(.+)/i
formulaPattern(cs, i) ==
  LET a == someSpaces(cs, alt(cs, i, <<Str("CREATE"), Str("ADD"), Str("MAKE")>>))
      b == optional(someSpaces(cs, lit(cs, a, Str("A"))), a)
      c == someSpaces(cs, lit(cs, someSpaces(cs, lit(cs, b, Str("FORMULA"))), Str("IN")))
      e == cellAt(cs, c)
      f == alt(cs, someSpaces(cs, e), <<Str("THAT"), Str("WHICH"), Str("TO")>>)
      h == finalGroup(cs, f, someSpaces(cs, f), 1)
  IN  IF h = 0 THEN NoMatch
      ELSE Match(<<SubSeq(cs, c, c), SubSeq(cs, c + 1, e - 1), From(cs, h)>>)

\* /^([A-Z])(\d+)\s*=\s*(=?.+)$/i: the optional = is the first character of
\* the group when there is one, so that the group is the one of (.+).
directFormulaPattern(cs) ==
  LET b == cellAt(cs, 1)
      c == lit(cs, spaces(cs, b), Str("="))
      e == finalGroup(cs, c, spaces(cs, c), 0)
  IN  IF e = 0 THEN NoMatch
      ELSE Match(<<SubSeq(cs, 1, 1), SubSeq(cs, 2, b - 1), From(cs, e)>>)

\* /([a-z])(\d+)\s*(?:by|times|x)\s*(\d+)/i
multiplyPattern(cs, i) ==
  LET b == cellAt(cs, i)
      c == spaces(cs, alt(cs, spaces(cs, b), <<Str("BY"), Str("TIMES"), Str("X")>>))
      e == digits(cs, c)
  IN  IF e = 0 THEN NoMatch
      ELSE Match(<<SubSeq(cs, i, i), SubSeq(cs, i + 1, b - 1), SubSeq(cs, c, e - 1)>>)

\* /([a-z])(\d+)\s*(?:and|plus|\+)\s*([a-z])(\d+)/i
addPattern(cs, i) ==
  LET b == cellAt(cs, i)
      c == spaces(cs, alt(cs, spaces(cs, b), <<Str("AND"), Str("PLUS"), Str("+")>>))
      e == cellAt(cs, c)
  IN  IF e = 0 THEN NoMatch
      ELSE Match(<<SubSeq(cs, i, i), SubSeq(cs, i + 1, b - 1),
                   SubSeq(cs, c, c), SubSeq(cs, c + 1, e - 1)>>)

\* /([a-z])(\d+):([a-z])(\d+)/i
sumRangePattern(cs, i) ==
  LET b == cellAt(cs, i)
      c == lit(cs, b, Str(":"))
      e == cellAt(cs, c)
  IN  IF e = 0 THEN NoMatch
      ELSE Match(<<SubSeq(cs, i, i), SubSeq(cs, i + 1, b - 1),
                   SubSeq(cs, c, c), SubSeq(cs, c + 1, e - 1)>>)

\* /(=[^\s]+)/i
formulaTextPattern(cs, i) ==
  LET e == nonSpaces(cs, lit(cs, i, Str("=")))
  IN  IF e = 0 THEN NoMatch ELSE Match(<<SubSeq(cs, i, e - 1)>>)

Null == [null |-> TRUE, s |-> ""]
Formula(cs) == [null |-> FALSE, s |-> Cat(cs)]

upperOf(cs) == [i \in DOMAIN cs |-> toUpperCase(cs[i])]

\* parseFormulaDescription: the formula, or null.
parseFormulaDescription(description, originalMessage) ==
  LET desc == toLowerCase(description)
      times == multiplyPattern(desc,
          firstMatch({i \in DOMAIN desc : multiplyPattern(desc, i).ok}))
      plus == addPattern(desc,
          firstMatch({i \in DOMAIN desc : addPattern(desc, i).ok}))
      range == sumRangePattern(desc,
          firstMatch({i \in DOMAIN desc : sumRangePattern(desc, i).ok}))
      formulaMatch == formulaTextPattern(originalMessage,
          firstMatch({i \in DOMAIN originalMessage : formulaTextPattern(originalMessage, i).ok}))
  IN  IF (includes(desc, Str("multipl")) \/ includes(desc, Str("times"))) /\ times.ok
        THEN Formula(<<"=">> \o upperOf(times.g[1]) \o times.g[2] \o <<"*">> \o times.g[3])
      ELSE IF (includes(desc, Str("add")) \/ includes(desc, Str("plus"))
                 \/ includes(desc, Str("sum"))) /\ plus.ok
        THEN Formula(<<"=">> \o upperOf(plus.g[1]) \o plus.g[2] \o <<"+">>
                   \o upperOf(plus.g[3]) \o plus.g[4])
      ELSE IF includes(desc, Str("sum")) /\ range.ok
        THEN Formula(Str("=SUM(") \o upperOf(range.g[1]) \o range.g[2] \o <<":">>
                   \o upperOf(range.g[3]) \o range.g[4] \o <<")">>)
      ELSE IF formulaMatch.ok THEN Formula(formulaMatch.g[1])
      ELSE Null

\* An AIAction; its formula field repeats value where it is set, and nothing
\* reads it.
Action(row, col, v) == [type |-> "updateCell", row |-> row, col |-> col, value |-> v]

\* match[1].charCodeAt(0) - 65
columnOf(group) == charCode(group[1]) - 65

\* parseInt(match[2]) - 1
rowOf(group) == parseInt(group) - 1

\* /fill\s+([A-Z])(\d+)\s+to\s+([A-Z])(\d+)\s+with\s+(.+)/i
fillPattern(cs, i) ==
  LET a == someSpaces(cs, lit(cs, i, Str("FILL")))
      b == cellAt(cs, a)
      c == someSpaces(cs, lit(cs, someSpaces(cs, b), Str("TO")))
      e == cellAt(cs, c)
      f == lit(cs, someSpaces(cs, e), Str("WITH"))
      h == finalGroup(cs, f, someSpaces(cs, f), 1)
  IN  IF h = 0 THEN NoMatch
      ELSE Match(<<SubSeq(cs, a, a), SubSeq(cs, a + 1, b - 1),
                   SubSeq(cs, c, c), SubSeq(cs, c + 1, e - 1), From(cs, h)>>)

\* /numbers?\s+(\d+)\s+to\s+(\d+)/i
numberPattern(cs, i) ==
  LET a == lit(cs, i, Str("NUMBER"))
      b == someSpaces(cs, optional(lit(cs, a, Str("S")), a))
      c == digits(cs, b)
      e == someSpaces(cs, lit(cs, someSpaces(cs, c), Str("TO")))
      f == digits(cs, e)
  IN  IF f = 0 THEN NoMatch
      ELSE Match(<<SubSeq(cs, b, c - 1), SubSeq(cs, e, f - 1)>>)

\* The while loop going down the rows first, and then to the next column.
RECURSIVE fillLoopByColumns(_, _, _, _, _, _, _, _)
fillLoopByColumns(v, row, col, step, end, startCol, endRow, endCol) ==
  IF ~((step > 0 /\ v <= end) \/ (step < 0 /\ v >= end)) THEN <<>>
  ELSE <<Action(row, col, Cat(NumToString(Fin(v, 1))))>>
         \o (IF row < endRow
               THEN fillLoopByColumns(v + step, row + 1, col, step, end, startCol, endRow, endCol)
             ELSE IF col < endCol
               THEN fillLoopByColumns(v + step, 0, col + 1, step, end, startCol, endRow, endCol)
             ELSE <<>>)

\* The while loop of parseFillPattern, from the test of its condition.
RECURSIVE fillLoop(_, _, _, _, _, _, _, _)
fillLoop(v, row, col, step, end, startCol, endRow, endCol) ==
  IF ~((step > 0 /\ v <= end) \/ (step < 0 /\ v >= end)) THEN <<>>
  ELSE <<Action(row, col, Cat(NumToString(Fin(v, 1))))>>
         \o (IF col < endCol
               THEN fillLoop(v + step, row, col + 1, step, end, startCol, endRow, endCol)
             ELSE IF row < endRow
               THEN fillLoop(v + step, row + 1, startCol, step, end, startCol, endRow, endCol)
             ELSE <<>>)

parseFillPattern(startRow, startCol, endRow, endCol, fillDesc) ==
  LET m == numberPattern(fillDesc,
      firstMatch({i \in DOMAIN fillDesc : numberPattern(fillDesc, i).ok}))
      start == parseInt(m.g[1])
      end == parseInt(m.g[2])
      step == IF start < end THEN 1 ELSE -1
  IN  IF m.ok
        THEN fillLoop(start, startRow, startCol, step, end, startCol, endRow, endCol)
        ELSE <<>>

\* /(?:calculate|what'?s?\s+(?:the|is))?\s*(sum|average|avg|max|min|count)\s+(?:of|in)?\s*([A-Z])(\d+):([A-Z])(\d+)/i
\* Its optional head and the white space after it end where the operation
\* starts, so that the pattern matches where its remainder does, and with the
\* same groups.
calcPattern(cs, i) ==
  LET a == alt(cs, i, <<Str("SUM"), Str("AVERAGE"), Str("AVG"), Str("MAX"),
                        Str("MIN"), Str("COUNT")>>)
      b == someSpaces(cs, a)
      c == spaces(cs, optional(alt(cs, b, <<Str("OF"), Str("IN")>>), b))
      e == cellAt(cs, c)
      f == lit(cs, e, Str(":"))
      h == cellAt(cs, f)
  IN  IF h = 0 THEN NoMatch
      ELSE Match(<<SubSeq(cs, i, a - 1), SubSeq(cs, c, c), SubSeq(cs, c + 1, e - 1),
                   SubSeq(cs, f, f), SubSeq(cs, f + 1, h - 1)>>)

\* /(?:clear|delete|empty|remove)\s+([A-Z])(\d+)/i
clearPattern(cs, i) ==
  LET a == someSpaces(cs, alt(cs, i, <<Str("CLEAR"), Str("DELETE"), Str("EMPTY"),
                                       Str("REMOVE")>>))
      b == cellAt(cs, a)
  IN  IF b = 0 THEN NoMatch
      ELSE Match(<<SubSeq(cs, a, a), SubSeq(cs, a + 1, b - 1)>>)

Answer(rule, actions) == [rule |-> rule, actions |-> actions]

\* '=' + formula unless formula.startsWith('=')
withEquals(formula) ==
  IF startsWith(formula, Str("=")) THEN formula ELSE <<"=">> \o formula

\* processMessage(message, spreadsheetData), where served is what the
\* language model's reply holds as actions when the message is handed to it
\* (none when the reply has none or the call fails).  rule names the branch
\* that answered.
processMessage(message, served) ==
  LET lowerMessage == trim(toLowerCase(Str(message)))
      set == setValuePattern(lowerMessage,
          firstMatch({i \in DOMAIN lowerMessage : setValuePattern(lowerMessage, i).ok}))
      assigned == IF set.ok THEN set ELSE directAssignmentPattern(Str(message))
      described == formulaPattern(lowerMessage,
          firstMatch({i \in DOMAIN lowerMessage : formulaPattern(lowerMessage, i).ok}))
      formula == parseFormulaDescription(described.g[3], Str(message))
      direct == directFormulaPattern(Str(message))
      fill == fillPattern(lowerMessage,
          firstMatch({i \in DOMAIN lowerMessage : fillPattern(lowerMessage, i).ok}))
      calc == calcPattern(lowerMessage,
          firstMatch({i \in DOMAIN lowerMessage : calcPattern(lowerMessage, i).ok}))
      clear == clearPattern(lowerMessage,
          firstMatch({i \in DOMAIN lowerMessage : clearPattern(lowerMessage, i).ok}))
  IN  IF isTemplateRequest(lowerMessage) THEN Answer("generateTemplate", served)
      ELSE IF assigned.ok
        THEN Answer("setValue",
               <<Action(rowOf(assigned.g[2]), columnOf(assigned.g[1]), Cat(assigned.g[3]))>>)
      ELSE IF described.ok
        THEN IF formula.null THEN Answer("formula", <<>>)
             ELSE Answer("formula",
                    <<Action(rowOf(described.g[2]), columnOf(described.g[1]), formula.s)>>)
      ELSE IF direct.ok
        THEN Answer("directFormula",
               <<Action(rowOf(direct.g[2]), columnOf(direct.g[1]),
                        Cat(withEquals(trim(direct.g[3]))))>>)
      ELSE IF fill.ok
        THEN Answer("fill",
               parseFillPattern(rowOf(fill.g[2]), columnOf(fill.g[1]),
                                rowOf(fill.g[4]), columnOf(fill.g[3]), fill.g[5]))
      ELSE IF calc.ok THEN Answer("calculate", <<>>)
      ELSE IF clear.ok
        THEN Answer("clear", <<Action(rowOf(clear.g[2]), columnOf(clear.g[1]), "")>>)
      ELSE Answer("handleComplexRequest", served)

(***************************************************************************)
(* The chat panel                                                          *)
(***************************************************************************)

Columns == {"A", "J"}
RowNumbers == {"1", "10"}
Values == {"100", "Hello"}

\* "Set <L><n> to <v>"
SetMessages == {"Set " \o L \o n \o " to " \o v : L \in Columns, n \in RowNumbers, v \in Values}

Messages ==
  SetMessages \cup
  {"set a1 to 5", "Put B2 = 7", "Make A1 as 3", "  ",
   "B1 = A1 * 2", "C1 = SUM(A1:A10)", "A1 = =B1", "b2=5", "A1 = ",
   "Create formula in B1 that multiplies A1 by 2",
   "Add formula in B1 that multiplies A1 by 2",
   "add a formula in C2 which adds A1 and B1",
   "Add formula in A3 to sum A1:A2",
   "Add formula in A3 that is =A1-1",
   "Add formula in A1 that does nothing",
   "Fill A1 to A10 with numbers 1 to 10",
   "fill A1 to B2 with numbers 5 to 1",
   "Fill A1 to A3 with names",
   "sum of A1:A3", "Clear A1", "hello", "Create a budget template"}

\* What a reply of the language model may hold as actions.
Served == {<<>>, <<Action(0, 0, "Item"), Action(0, 1, "Cost")>>}

\* The updates of a list of { row, col, value }, as updateMultipleCells
\* applies them with forEach: by cell, the last of a cell standing.
updatesOf(items) ==
  [k \in {Key(items[n].row, items[n].col) : n \in DOMAIN items} |->
     items[CHOOSE n \in DOMAIN items :
             /\ Key(items[n].row, items[n].col) = k
             /\ \A o \in DOMAIN items :
                  Key(items[o].row, items[o].col) = k => o <= n].value]

\* The messages that the user sends are counted up to this number.
MaxSends == 2

Sent == Cardinality({n \in DOMAIN messages : messages[n] = "user"})

\* Date.now(), as far as the identifiers of the changes go: a clock that has
\* advanced whenever a message has been added.
Now == Len(messages)

\* The PendingChange that handleSend makes of an action, its id being
\* `${Date.now()}-${action.row}-${action.col}`.
pendingChange(action, d, now) ==
  [id |-> <<now, action.row, action.col>>,
   row |-> action.row, col |-> action.col,
   oldValue |-> getCellValue(d, action.row, action.col),
   newValue |-> action.value, status |-> "pending"]

ChatInit ==
  /\ data \in {Blank, SumSheet}
  /\ NoHistory
  /\ cur = C1
  /\ value = ""
  /\ expr = ""
  /\ pc = "idle"
  /\ result = ""
  /\ env = Globals(FirstRandom, Unbound)
  /\ NoChat

\* onChange of the input box, which is disabled while isLoading:
\* setInput(e.target.value), the text being one of typed.
SetInputAmong(typed) ==
  /\ ~isLoading
  /\ \E m \in typed : input' = m
  /\ UNCHANGED <<data, renderVars, historyVars, isLoading, request, response,
                 messages, previewVars, fillVars>>

SetInput == SetInputAmong(Messages)

\* handleSend up to the await of processMessage; response, a constant of
\* this call, has no value yet.
HandleSend ==
  /\ trim(Str(input)) # <<>>
  /\ ~isLoading
  /\ Sent < MaxSends
  /\ messages' = Append(messages, "user")
  /\ request' = input
  /\ input' = ""
  /\ isLoading' = TRUE
  /\ response' = NoResponse
  /\ UNCHANGED <<data, renderVars, historyVars, previewVars, fillVars>>

\* handleSend from the answer of processMessage on, when the panel is given
\* no addPendingChanges: the actions are applied at once, through
\* updateMultipleCells when there are several and updateCell when there is
\* one.
AnsweredApplying ==
  /\ isLoading
  /\ \E served \in Served : response' = processMessage(request, served)
  /\ messages' = Append(messages, "assistant")
  /\ IF response'.actions # <<>>
       THEN /\ data' = updateMultipleCells(data, updatesOf(response'.actions))
            /\ \/ Recorded([history |-> history, historyIndex |-> historyIndex], data')
               \/ NotRecorded
       ELSE UNCHANGED <<data, historyVars>>
  /\ isLoading' = FALSE
  /\ UNCHANGED <<renderVars, input, request, previewVars, fillVars>>

\* handleSend from the answer of processMessage on, the App having given
\* the panel its addPendingChanges: setPendingChanges(changes) and
\* setShowDiffPreview(true).  A DiffPreview that is mounted stays so, with
\* its isProcessing.
Answered ==
  /\ isLoading
  /\ \E served \in Served : response' = processMessage(request, served)
  /\ messages' = Append(messages, "assistant")
  /\ IF response'.actions # <<>>
       THEN /\ pendingChanges' = [n \in DOMAIN response'.actions |->
                                    pendingChange(response'.actions[n], data, Now)]
            /\ showDiffPreview' = TRUE
       ELSE UNCHANGED <<pendingChanges, showDiffPreview>>
  /\ isLoading' = FALSE
  /\ UNCHANGED <<data, renderVars, historyVars, input, request, isProcessing,
                 timers, fillVars>>

\* handleSend's catch and finally, should the awaited call be rejected.
Thrown ==
  /\ isLoading
  /\ messages' = Append(messages, "error")
  /\ isLoading' = FALSE
  /\ UNCHANGED <<data, renderVars, historyVars, input, request, response,
                 previewVars, fillVars>>

ChatNext ==
  \/ SetInput
  \/ HandleSend
  \/ Answered
  \/ Thrown

ChatSpec == ChatInit /\ [][ChatNext]_vars

(***************************************************************************)
(* The diff preview: the chat panel with the App's addPendingChanges, the  *)
(* DiffPreview and the timeouts that acceptAllChanges and rejectAllChanges *)
(* set.  A timeout is kept with the Date.now() part of the ids of the      *)
(* batch that was pending when it was set; none is ever cleared, and one   *)
(* runs at some moment after it was set.  Nothing of the panel is disabled *)
(* by showDiffPreview, so that messages are sent and answered while a      *)
(* preview is shown.                                                       *)
(***************************************************************************)

ShortMessages == {"hello", "Set A1 to 100", "  "}

\* Cmd+I is pressed up to this number of times.
MaxSuggestions == 1

Suggested == Cardinality({n \in DOMAIN messages : messages[n] = "suggestion"})

\* An element of parsed.actions that is null: handleComplexRequest checks
\* Array.isArray(parsed.actions) and casts the array to AIAction[].
NullAction == [null |-> TRUE]

\* The Date.now() part of the ids of a batch.
batchOf(changes) == changes[1].id[1]

hasPending(changes) == \E n \in DOMAIN changes : changes[n].status = "pending"

\* prev.map(change => change.id === id ? { ...change, status } : change)
setStatus(prev, id, status) ==
  [n \in DOMAIN prev |->
     IF prev[n].id = id THEN [prev[n] EXCEPT !.status = status] ELSE prev[n]]

acceptChange(prev, id) == setStatus(prev, id, "accepted")
rejectChange(prev, id) == setStatus(prev, id, "rejected")

update(c) == [row |-> c.row, col |-> c.col, value |-> c.newValue]

\* Every change as an update, whatever its status.
updatesOfEveryChange(changes) == [n \in DOMAIN changes |-> update(changes[n])]

\* pendingChanges.filter(c => c.status === 'pending').map(c => ({ row, col,
\* value: c.newValue }))
pendingUpdates(changes) ==
  LET pending == SelectSeq(changes, LAMBDA c : c.status = "pending")
  IN  [n \in DOMAIN pending |-> update(pending[n])]

\* prev.map(c => c.status === 'pending' ? { ...c, status: 'accepted' } : c)
acceptPending(prev) ==
  [n \in DOMAIN prev |->
     IF prev[n].status = "pending" THEN [prev[n] EXCEPT !.status = "accepted"]
     ELSE prev[n]]

\* prev.map(c => ({ ...c, status: 'rejected' }))
rejectEvery(prev) == [n \in DOMAIN prev |-> [prev[n] EXCEPT !.status = "rejected"]]

Timer(kind, batch) == [kind |-> kind, batch |-> batch]

PreviewInit ==
  /\ data = Blank
  /\ NoHistory
  /\ cur = C1
  /\ value = ""
  /\ expr = ""
  /\ pc = "idle"
  /\ result = ""
  /\ env = Globals(FirstRandom, Unbound)
  /\ NoChat

TypeShortMessage == SetInputAmong(ShortMessages)

\* handleSend from the answer of handleComplexRequest on, the array of the
\* actions holding a null: the assistant message is added, action.type
\* throws in the filter, and the catch adds the error message.
AnsweredMalformed ==
  /\ isLoading
  /\ processMessage(request, <<>>).rule = "handleComplexRequest"
  /\ response' = Answer("handleComplexRequest", <<NullAction>>)
  /\ messages' = Append(Append(messages, "assistant"), "error")
  /\ isLoading' = FALSE
  /\ UNCHANGED <<data, renderVars, historyVars, input, request, previewVars,
                 fillVars>>

\* showContextSuggestions (Cmd+I)
ShowContextSuggestions ==
  /\ Suggested < MaxSuggestions
  /\ messages' = Append(messages, "suggestion")
  /\ UNCHANGED <<data, renderVars, historyVars, input, isLoading, request,
                 response, previewVars, fillVars>>

\* onAcceptOne(change.id), the button of a change whose status is 'pending'
AcceptChange ==
  /\ showDiffPreview
  /\ \E n \in DOMAIN pendingChanges :
       /\ pendingChanges[n].status = "pending"
       /\ pendingChanges' = acceptChange(pendingChanges, pendingChanges[n].id)
  /\ UNCHANGED <<data, renderVars, historyVars, panelVars, showDiffPreview,
                 isProcessing, timers, fillVars>>

\* onRejectOne(change.id), the button of a change whose status is 'pending'
RejectChange ==
  /\ showDiffPreview
  /\ \E n \in DOMAIN pendingChanges :
       /\ pendingChanges[n].status = "pending"
       /\ pendingChanges' = rejectChange(pendingChanges, pendingChanges[n].id)
  /\ UNCHANGED <<data, renderVars, historyVars, panelVars, showDiffPreview,
                 isProcessing, timers, fillVars>>

\* handleAcceptAll of the DiffPreview, its button being disabled when no
\* change is pending or isProcessing, and acceptAllChanges of the App.
AcceptAllChanges ==
  /\ showDiffPreview
  /\ ~isProcessing
  /\ hasPending(pendingChanges)
  /\ isProcessing' = TRUE
  /\ data' = updateMultipleCells(data, updatesOf(pendingUpdates(pendingChanges)))
  /\ \/ Recorded([history |-> history, historyIndex |-> historyIndex], data')
     \/ NotRecorded
  /\ pendingChanges' = acceptPending(pendingChanges)
  /\ timers' = timers \cup {Timer("hide", batchOf(pendingChanges))}
  /\ UNCHANGED <<renderVars, panelVars, showDiffPreview, fillVars>>

\* handleRejectAll of the DiffPreview and rejectAllChanges of the App
RejectAllChanges ==
  /\ showDiffPreview
  /\ ~isProcessing
  /\ hasPending(pendingChanges)
  /\ isProcessing' = TRUE
  /\ pendingChanges' = rejectEvery(pendingChanges)
  /\ timers' = timers \cup {Timer("reject", batchOf(pendingChanges))}
  /\ UNCHANGED <<data, renderVars, historyVars, panelVars, showDiffPreview,
                 fillVars>>

\* closeDiffPreview; the DiffPreview is unmounted, and its isProcessing lost.
CloseDiffPreview ==
  /\ showDiffPreview
  /\ showDiffPreview' = FALSE
  /\ pendingChanges' = <<>>
  /\ isProcessing' = FALSE
  /\ UNCHANGED <<data, renderVars, historyVars, panelVars, timers, fillVars>>

\* The timeout of 600 ms of acceptAllChanges: setShowDiffPreview(false) and
\* a timeout of 100 ms.
HideTimer ==
  /\ \E t \in timers :
       /\ t.kind = "hide"
       /\ timers' = (timers \ {t}) \cup {Timer("clear", t.batch)}
  /\ showDiffPreview' = FALSE
  /\ isProcessing' = FALSE
  /\ UNCHANGED <<data, renderVars, historyVars, panelVars, pendingChanges,
                 fillVars>>

\* The timeout of 100 ms: setPendingChanges([])
ClearTimer ==
  /\ \E t \in timers :
       /\ t.kind = "clear"
       /\ timers' = timers \ {t}
  /\ pendingChanges' = <<>>
  /\ UNCHANGED <<data, renderVars, historyVars, panelVars, showDiffPreview,
                 isProcessing, fillVars>>

\* The timeout of 500 ms of rejectAllChanges
RejectTimer ==
  /\ \E t \in timers :
       /\ t.kind = "reject"
       /\ timers' = timers \ {t}
  /\ showDiffPreview' = FALSE
  /\ pendingChanges' = <<>>
  /\ isProcessing' = FALSE
  /\ UNCHANGED <<data, renderVars, historyVars, panelVars, fillVars>>

PreviewNext ==
  \/ TypeShortMessage
  \/ HandleSend
  \/ Answered
  \/ AnsweredMalformed
  \/ Thrown
  \/ ShowContextSuggestions
  \/ AcceptChange
  \/ RejectChange
  \/ AcceptAllChanges
  \/ RejectAllChanges
  \/ CloseDiffPreview
  \/ HideTimer
  \/ ClearTimer
  \/ RejectTimer
  \/ Undo
  \/ ResetUpdating

PreviewSpec == PreviewInit /\ [][PreviewNext]_vars

(***************************************************************************)
(* parseFillPattern, called on its own                                     *)
(***************************************************************************)

\* The rows and the columns of the rectangles go up to this index, and the
\* numbers of a description are among these.
MaxIndex == 2
Numbers == {0, 1, 2, 3, 9, 10, 11}

\* "numbers s to e"
Description(s, e) == "numbers " \o Cat(NatDigits(s)) \o " to " \o Cat(NatDigits(e))

Descriptions == {Description(s, e) : s \in Numbers, e \in Numbers} \cup {"names"}

Calls ==
  [startRow : 0..MaxIndex, startCol : 0..MaxIndex,
   endRow : 0..MaxIndex, endCol : 0..MaxIndex, fillDesc : Descriptions]

FillInit ==
  /\ data = Blank
  /\ NoHistory
  /\ cur = C1
  /\ value = ""
  /\ expr = ""
  /\ pc = "idle"
  /\ result = ""
  /\ env = Globals(FirstRandom, Unbound)
  /\ NoPanel
  /\ NoPreview
  /\ call \in Calls
  /\ fillActions = NotReturned

\* const fillActions = this.parseFillPattern(startRow, startCol, endRow,
\* endCol, fillDesc)
ParseFillPattern ==
  /\ fillActions = NotReturned
  /\ fillActions' = Returned(parseFillPattern(call.startRow, call.startCol,
                                              call.endRow, call.endCol,
                                              Str(call.fillDesc)))
  /\ UNCHANGED <<data, renderVars, historyVars, panelVars, previewVars, call>>

FillNext == ParseFillPattern

FillSpec == FillInit /\ [][FillNext]_vars

(***************************************************************************)
(* Properties                                                              *)
(***************************************************************************)

IsFormula(content) == startsWith(Str(content), Str("="))

\* The cells of the snapshot that hold a formula, the rendered one apart.
FormulaCells == {k \in DOMAIN data : k # cur /\ IsFormula(data[k])}

\* The letter and the digits that the code resolves to the cell k.
AddressLetter(k) ==
  IF k[2] < 26 THEN UpperLetters[k[2] + 1] ELSE LowerLetters[k[2] - 31]
AddressDigits(k) == NatDigits(k[1] + 1)
Addressable(k) == k[1] >= 0 /\ (k[2] \in 0..25 \/ k[2] \in 32..57)

\* Formula texts put in place of the formula of a referenced cell.
OtherFormulas == {"=1", "=7+1", "=A2", "=SUM(A1:A3)", "=q"}

\* C1: a content that does not start with "=" is returned exactly as it is,
\* by evaluateFormula and, when it is not empty, as the display value of the
\* cell: nothing is substituted in it and nothing is computed from it.
C1_LiteralUnchanged ==
  ~IsFormula(value) =>
    /\ evaluateFormula(value, data, env) = value
    /\ (pc = "done" /\ value # "" => result = value)

\* A content with "=" after its first character has been rendered.
C1_Witness == pc = "done" /\ value = "1=2" /\ result = "1=2"

\* C2: a referenced cell that holds a formula contributes 0: a bare reference
\* to it is replaced by "0", a range made of it gathers the sum 0 over no
\* cell, and the display value of the rendered formula stays the same when
\* the formula of that cell is replaced by any other formula text.
C2_FormulaCellsContributeZero ==
  \A k \in FormulaCells :
    /\ Addressable(k) /\ k[2] < 26 =>
         cellRefReplace(<<AddressLetter(k)>>, AddressDigits(k), data) = Str("0")
    /\ Addressable(k) =>
         gather(<<AddressLetter(k)>>, AddressDigits(k),
                <<AddressLetter(k)>>, AddressDigits(k), data)
           = [sum |-> Zero(FALSE), count |-> 0]
    /\ pc = "done" =>
         \A t \in OtherFormulas :
           getDisplayValue(value, updateCell(data, k, t), env)
             = getDisplayValue(value, data, env)

\* A formula with a range and a bare reference, both reaching formula cells,
\* has been evaluated.
C2_Witness ==
  /\ pc = "done"
  /\ value = "=sum(a1:a2)+A1"
  /\ {A1, AG1} \subseteq FormulaCells
  /\ result = "5"

\* The content is a bare reference to a cell of the snapshot that is itself a
\* formula, as in A1 = "=B1" with B1 = "=A1".
RefersToFormula ==
  \E k \in DOMAIN data :
    /\ IsFormula(data[k])
    /\ Addressable(k) /\ k[2] < 26
    /\ value = Cat(<<"=", AddressLetter(k)>> \o AddressDigits(k))

\* C3: evaluating a cell that refers to a formula cell (the cells of a cycle
\* among them) does not evaluate the referenced formula: the first pass
\* leaves the literal "0" as the whole expression, and the display value
\* is 0.
C3_CycleYieldsZero ==
  RefersToFormula =>
    /\ pc \in {"sums", "averages", "arithmetic", "done"} => expr = "0"
    /\ pc = "done" => result = "0"

\* A1 = "=B1" has been rendered in a sheet where B1 = "=A1".
C3_Witness ==
  /\ pc = "done"
  /\ cur = A1
  /\ value = "=B1"
  /\ data[B1] = "=A1"
  /\ result = "0"

\* C6: the step that ends the rendering of a cell returns a string, the one
\* that getDisplayValue gives for the content; when the arithmetic step
\* throws, the exception is caught and the string is the marker "#ERROR",
\* which is what the malformed "=A1+" gives.
C6_ErrorsBecomeMarker ==
  [][pc # "done" /\ pc' = "done" =>
       /\ result' \in STRING
       /\ result' = getDisplayValue(value, data, env)
       /\ pc = "arithmetic" /\ runFunction(Str(expr), env).kind = "throw" =>
            result' = "#ERROR"
       /\ value = "=A1+" => result' = "#ERROR"]_vars

\* The malformed formula "=A1+" has been evaluated.
C6_Witness == pc = "done" /\ value = "=A1+" /\ result = "#ERROR"

\* What the specification says of an address: the column
\* is the whole letter run read in base 26 (A = 0, Z = 25, AA = 26) and the
\* row is the number less one.
RECURSIVE Base26(_)
Base26(ls) ==
  IF ls = <<>> THEN 0
  ELSE 26 * Base26(SubSeq(ls, 1, Len(ls) - 1))
         + (charCode(toUpperCase(ls[Len(ls)])) - 64)

ColumnIndex(ls) == Base26(ls) - 1

Min(a, b) == IF a < b THEN a ELSE b
Max(a, b) == IF a < b THEN b ELSE a

\* The range of a content that is one call of name on one range, name being
\* "SUM(" or "AVERAGE(".
RangeOf(name) == rangeMatch(Str(workingExpression(value)), 1, Str(name))

WholeRange(name) ==
  /\ IsFormula(value)
  /\ RangeOf(name).ok
  /\ RangeOf(name).end = Len(workingExpression(value)) + 1
  /\ Range(RangeOf(name).startCol) \cup Range(RangeOf(name).endCol) \subseteq Upper
  /\ parseInt(RangeOf(name).startRow) >= 1
  /\ parseInt(RangeOf(name).endRow) >= 1

\* The cells of the rectangle between the two corners of the match m.
Rectangle(m) ==
  {Key(r, c) :
     r \in Min(parseInt(m.startRow), parseInt(m.endRow)) - 1
             .. Max(parseInt(m.startRow), parseInt(m.endRow)) - 1,
     c \in Min(ColumnIndex(m.startCol), ColumnIndex(m.endCol))
             .. Max(ColumnIndex(m.startCol), ColumnIndex(m.endCol))}

\* Those of the cells S that hold a number and no formula.
NumericCells(S, d) ==
  {k \in S \cap DOMAIN d :
     ~IsFormula(d[k]) /\ ~isNaN(parseFloat(Str(d[k])))}

RECURSIVE SumOver(_, _)
SumOver(S, d) ==
  IF S = {} THEN Zero(FALSE)
  ELSE LET k == CHOOSE x \in S : TRUE
       IN  Add(parseFloat(Str(d[k])), SumOver(S \ {k}, d))

\* C4: "=SUM(c1:c2)" displays the sum of the cells of the rectangle that
\* hold a number and no formula: 3 for A1 = "1", A2 = "2", A3 = "x", and 0
\* when the rectangle holds no such cell.
C4_SumOfNumericCells ==
  pc = "done" /\ WholeRange("SUM(") =>
    result = Cat(NumToString(
               SumOver(NumericCells(Rectangle(RangeOf("SUM(")), data), data)))

\* C5: "=AVERAGE(c1:c2)" displays the sum of the cells of the rectangle that
\* hold a number and no formula, divided by the number of those cells: 5 for
\* A1 = "4", A2 = "6", and 0 when there is no such cell.
C5_AverageOfNumericCells ==
  pc = "done" /\ WholeRange("AVERAGE(") =>
    LET cells == NumericCells(Rectangle(RangeOf("AVERAGE(")), data)
    IN  result = IF cells = {} THEN "0"
                 ELSE Cat(NumToString(Divide(SumOver(cells, data),
                                             Fin(Cardinality(cells), 1))))

\* The characters of numeric literals, white space, the four operators and
\* the parentheses.
ArithmeticChars == Digit \cup WhiteSpace \cup {".", "+", "-", "*", "/", "(", ")"}

\* C7: an expression that, after substitution, is empty or holds anything
\* but numeric literals, white space, + - * / and parentheses displays the
\* marker "#ERROR".
C7_OnlyArithmeticEvaluated ==
  /\ pc = "done"
  /\ IsFormula(value)
  /\ expr = "" \/ ~(Range(Str(expr)) \subseteq ArithmeticChars)
  => result = ErrorMarker

\* The expression, after substitution, is a natural number divided by 0.
DividesByZero ==
  LET e == Str(expr)
      j == RunEnd(e, 1, Digit)
  IN  j > 1 /\ j + 1 = Len(e) /\ e[j] = "/" /\ e[j + 1] = "0"

\* C8: a formula that, after substitution, divides by zero ("=1/0", "=1/A1"
\* with A1 empty) displays the marker "#ERROR", and no formula displays
\* Infinity or NaN.
C8_DivisionByZeroIsError ==
  pc = "done" /\ IsFormula(value) =>
    /\ DividesByZero => result = ErrorMarker
    /\ result \notin {"Infinity", "-Infinity", "NaN"}

\* The content is "=" and one address in upper case, of a row from 1 on.
BareAddress ==
  LET e == Str(value)
      j == RunEnd(e, 2, Upper)
      k == RunEnd(e, j, Digit)
  IN  /\ IsFormula(value)
      /\ j > 2 /\ k > j /\ k = Len(e) + 1
      /\ parseInt(SubSeq(e, j, k - 1)) >= 1

\* The cell that the address of such a content names.
AddressedCell ==
  LET e == Str(value)
      j == RunEnd(e, 2, Upper)
  IN  Key(parseInt(SubSeq(e, j, Len(e))) - 1, ColumnIndex(SubSeq(e, 2, j - 1)))

\* C9: a reference resolves to the cell whose column is the whole letter run
\* read in base 26 and whose row is the number less one, so that "=AA1"
\* displays the content of column 26 and not that of A1.
C9_ColumnIsBase26 ==
  pc = "done" /\ BareAddress =>
    result = arithmetic(Cat(substitutedText(OrZero(data, AddressedCell))), env)

\* The formula holds an address whose row number is 0.
RowZeroReference ==
  LET e == Str(workingExpression(value))
  IN  /\ IsFormula(value)
      /\ \E i \in 1..Len(e) :
           /\ i = 1 \/ e[i - 1] \notin Letter
           /\ RunEnd(e, i, Letter) > i
           /\ RunEnd(e, RunEnd(e, i, Letter), Digit) > RunEnd(e, i, Letter)
           /\ parseInt(SubSeq(e, RunEnd(e, i, Letter),
                              RunEnd(e, RunEnd(e, i, Letter), Digit) - 1)) = 0

\* C10: a formula with an address of row 0 ("=A0", "=SUM(A0:A2)") displays
\* the marker "#ERROR" and never a number read from another row.
C10_RowZeroIsError ==
  pc = "done" /\ RowZeroReference => result = ErrorMarker

\* The content is one call of name on one range, in either case.
AnyWholeRange(name) ==
  /\ IsFormula(value)
  /\ RangeOf(name).ok
  /\ RangeOf(name).end = Len(workingExpression(value)) + 1

\* The same call with its two corners exchanged.
Reversed(name) ==
  Cat(<<"=">> \o SubSeq(Str(workingExpression(value)), 1, Len(name))
        \o RangeOf(name).endCol \o RangeOf(name).endRow \o <<":">>
        \o RangeOf(name).startCol \o RangeOf(name).startRow \o <<")">>)

\* C11: an aggregate over c2:c1 displays what the aggregate over c1:c2
\* displays, for SUM and for AVERAGE: the corners are put in order before the
\* cells are gathered.
C11_RangeIsNormalized ==
  pc = "done" =>
    \A name \in {"SUM(", "AVERAGE("} :
      AnyWholeRange(name) =>
        result = getDisplayValue(Reversed(name), data, env)

\* The number that the content of the cell key stands for: the number it
\* parses as, and 0 for a cell that is absent, empty, a formula or a text
\* that is no number.
NumberIn(d, key) ==
  IF \/ key \notin DOMAIN d
     \/ d[key] = ""
     \/ IsFormula(d[key])
     \/ isNaN(parseFloat(Str(d[key])))
    THEN Zero(FALSE)
    ELSE parseFloat(Str(d[key]))

\* The content is "=", a natural number, one of + - * and one address made
\* of one upper-case letter and a row from 1 on.
OperandReference ==
  LET e == Str(value)
      j == RunEnd(e, 2, Digit)
      m == cellRefMatch(e, j + 1)
  IN  /\ IsFormula(value)
      /\ j > 2 /\ j <= Len(e) /\ e[j] \in {"+", "-", "*"}
      /\ m.ok /\ m.end = Len(e) + 1
      /\ Len(m.col) = 1 /\ parseInt(m.rowNum) >= 1

\* What such a content displays when the reference stands for its number.
OperandReferenceValue ==
  LET e == Str(value)
      j == RunEnd(e, 2, Digit)
      m == cellRefMatch(e, j + 1)
  IN  Cat(NumToString(
        binary(e[j], Fin(DigitsValue(SubSeq(e, 2, j - 1)), 1),
               NumberIn(data, Key(parseInt(m.rowNum) - 1,
                                  charCode(m.col[1]) - 65)))))

\* C12: a bare reference in a formula stands for the number that the content
\* of the referenced cell parses as, and for 0 when the cell is absent,
\* empty or no number: "=<n> op <address>" displays n op that number, and
\* never the marker "#ERROR".
C12_ReferenceIsItsNumber ==
  pc = "done" /\ OperandReference =>
    /\ result = OperandReferenceValue
    /\ result # ErrorMarker

\* C13: no step of the evaluation of a cell changes the snapshot: every key
\* keeps its content and no key is added or removed, whether the evaluation
\* ends with a value or with the marker "#ERROR".
C13_SnapshotUnchanged == [][pc # "done" => data' = data]_vars

\* An evaluation that read cells of the snapshot has ended with a value, and
\* one with the marker.
C13_Witness ==
  /\ pc = "done"
  /\ data = updateCell(SumSheet, C1, value)
  /\ \/ value = "=A1+" /\ result = ErrorMarker
     \/ value = "=1-A2" /\ result = "-1"

\* The global states a rendering can run in.
GlobalStates ==
  {Globals(r, k) : r \in RandomValues, k \in {Unbound, Fin(7, 1)}}

\* C14: the display value of a cell is a function of its content and of the
\* snapshot alone: whatever the state outside them, and whichever cell is
\* rendered, an evaluation of the same content on the same snapshot returns
\* the result that was displayed.
C14_Deterministic ==
  pc = "done" =>
    \A g \in GlobalStates : result = getDisplayValue(value, data, g)

\* The other cells of the snapshot whose formula displays the marker.
FailingCells ==
  {f \in DOMAIN data \ {cur} :
     IsFormula(data[f]) /\ getDisplayValue(data[f], data, env) = ErrorMarker}

\* The cell f is the only one whose formula writes the global k.
OnlyWriter(f) ==
  /\ Str(workingExpression(data[f])) = Writing
  /\ \A o \in DOMAIN data \ {f} :
       ~IsFormula(data[o]) \/ Str(workingExpression(data[o])) # Writing

\* The global states in which the rendered cell would have been evaluated,
\* had the cell f held a formula of OtherFormulas.
GlobalsWithout(f) ==
  {Globals(r, IF OnlyWriter(f) THEN Unbound ELSE env.k) : r \in RandomValues}

\* C15: the display value of a cell is the one it would have if a failing
\* cell of the snapshot, one whose formula displays "#ERROR", held any other
\* formula text.
C15_ErrorsAreIsolated ==
  pc = "done" =>
    \A f \in FailingCells :
      \A t \in OtherFormulas :
        \E g \in GlobalsWithout(f) :
          result = getDisplayValue(value, updateCell(data, f, t), g)

\* The call of the Function on the working expression comes to an end: it
\* returns a value or throws.
CallEnds == runFunction(Str(expr), env).kind \in {"value", "throw"}

\* C16: every evaluation terminates: after the substitution passes, each of
\* which is one replace over the text, the one arithmetic evaluation comes to
\* an end, whatever the content and the snapshot, so that the rendering of
\* the cell can always take its last step.
C16_EvaluationTerminates == pc = "arithmetic" => CallEnds

\* C17: whatever the sequence of updateCell, updateMultipleCells, import,
\* undo and redo, the history holds between 1 and 50 snapshots and
\* historyIndex is the index of one of them.
C17_HistoryIndexValid ==
  /\ Len(history) \in 1..HistoryLimit
  /\ historyIndex \in 0..(Len(history) - 1)

\* The history is full and its first snapshot, that of the empty sheet, has
\* been dropped; an undo has moved the index away from the last entry.
C17_Witness ==
  /\ Len(history) = HistoryLimit
  /\ history[1] # Blank
  /\ historyIndex = HistoryLimit - 2
  /\ isUpdatingRef = TRUE

\* The chat panel shows the answer to request.
AnswerShown == ~isLoading /\ request # ""

\* C18: a message "Set <L><n> to <v>" with L one of A to J, n >= 1 and v free
\* of white space is answered with exactly one updateCell action, whose row
\* is n - 1, whose column is the index of L from A = 0, and whose value is v
\* ("Set A1 to 100": row 0, column 0, value "100").
C18_SetValueIsOneUpdate ==
  \A L \in Columns, n \in RowNumbers, v \in Values :
    AnswerShown /\ request = "Set " \o L \o n \o " to " \o v
      => response.actions = <<Action(parseInt(Str(n)) - 1, ColumnIndex(Str(L)), v)>>

\* The messages of the form "<Cell> = <expression>" among the samples, with
\* the cell each one names.
DirectFormulas == ("B1 = A1 * 2" :> B1) @@ ("C1 = SUM(A1:A10)" :> C1)

\* C19: a message "<Cell> = <expression>" is answered by the direct formula
\* rule with one updateCell action for that cell whose value is the
\* expression as a formula, that is with "=" in front of it.
C19_DirectFormulaIsStored ==
  \A m \in DOMAIN DirectFormulas :
    AnswerShown /\ request = m
      => /\ response.rule = "directFormula"
         /\ Len(response.actions) = 1
         /\ Key(response.actions[1].row, response.actions[1].col) = DirectFormulas[m]
         /\ IsFormula(response.actions[1].value)

\* C20: "Create formula in B1 that multiplies A1 by 2" is answered by the
\* formula rule, with the action that puts "=A1*2" in B1 (row 0, column 1);
\* it is handed neither to the template generator nor to the language model.
C20_FormulaIsCreated ==
  AnswerShown /\ request = "Create formula in B1 that multiplies A1 by 2"
    => response = Answer("formula", <<Action(0, 1, "=A1*2")>>)

\* C23: the range pass comes before the pass over the bare references, which
\* leaves the corners of a range alone: when the SUM and AVERAGE passes are
\* about to run on a formula that is one call over one range, the text they
\* are given still holds the call with its two corners.
C23_RangesBeforeReferences ==
  pc \in {"sums", "averages"} /\ (WholeRange("SUM(") \/ WholeRange("AVERAGE("))
    => expr = workingExpression(value)

\* C24: in every settled state, no timer of an undo or redo pending, the
\* sheet shown is the snapshot the history holds at historyIndex, whatever
\* the interleaving of edits, batch updates, imports, undo and redo: an edit
\* made while isUpdatingRef is still set is in the history too.
C24_DataIsCurrentSnapshot ==
  isUpdatingRef = FALSE => data = history[historyIndex + 1]

\* C25: an edit recorded after one or more undo steps discards the redo
\* branch: the new history is the entries up to the current index followed
\* by the new snapshot, and historyIndex is the index of the last entry.
\* Redo then does nothing until another undo: the index stays that of the
\* last entry through every step but an undo.
C25_EditDiscardsRedoBranch ==
  [][/\ (UpdateCell \/ UpdateMultipleCells)
          /\ isUpdatingRef = FALSE /\ historyIndex < Len(history) - 1
        => /\ history' = Append(SubSeq(history, 1, historyIndex + 1), data')
           /\ historyIndex' = Len(history') - 1
     /\ historyIndex = Len(history) - 1 /\ ~Undo
        => historyIndex' = Len(history') - 1]_vars

\* Two undo steps have led back to the first snapshot, two entries are there
\* to redo, and the timer of the last undo has run: the next edit is
\* recorded.
C25_Witness ==
  /\ Len(history) = 3
  /\ historyIndex = 0
  /\ data = Blank
  /\ isUpdatingRef = FALSE

\* C22: for a rectangle with startRow <= endRow and startCol <= endCol and
\* the description "numbers s to e", parseFillPattern returns, and what it
\* returns is min(|e - s| + 1, cells of the rectangle) updateCell actions,
\* the k-th of them for the k-th cell of the rectangle in row-major order
\* from (startRow, startCol), with the value that is k - 1 steps from s
\* towards e: every action is inside the rectangle and no cell is written
\* twice.
C22_FillIsRowMajor ==
  \A s \in Numbers, e \in Numbers :
    /\ fillActions.returned
    /\ call.fillDesc = Description(s, e)
    /\ call.startRow <= call.endRow /\ call.startCol <= call.endCol
    => LET width == call.endCol - call.startCol + 1
           cells == width * (call.endRow - call.startRow + 1)
           count == Min(Abs(e - s) + 1, cells)
       IN  /\ Len(fillActions.actions) = count
           /\ \A k \in 1..count :
                fillActions.actions[k] =
                  Action(call.startRow + ((k - 1) \div width),
                         call.startCol + ((k - 1) % width),
                         Cat(NatDigits(IF s < e THEN s + (k - 1) ELSE s - (k - 1))))

\* The numbers 9 to 11 have filled the first three cells of a rectangle of
\* two rows and two columns, the third in its second row.
C22_Witness ==
  /\ call = [startRow |-> 1, startCol |-> 1, endRow |-> 2, endCol |-> 2,
             fillDesc |-> "numbers 9 to 11"]
  /\ fillActions = Returned(<<Action(1, 1, "9"), Action(1, 2, "10"), Action(2, 1, "11")>>)

\* C21: with the preview enabled, the edits that an answer proposes are only
\* made pending.  The step that adds a message leaves the data, the history
\* and its index as they were, and afterwards the data or the history change
\* only in a step that accepts the pending changes, or in an undo.
C21_ProposedEditsStayPending ==
  [][/\ messages' # messages => UNCHANGED <<data, history, historyIndex>>
     /\ data' # data \/ history' # history
          => \/ /\ hasPending(pendingChanges)
                /\ pendingChanges' = acceptPending(pendingChanges)
             \/ historyIndex' < historyIndex]_vars

\* An answer with two actions has arrived and nothing has been decided: both
\* are pending, and neither the data nor the history hold them.
C21_Witness ==
  /\ showDiffPreview
  /\ Len(pendingChanges) = 2
  /\ \A n \in DOMAIN pendingChanges : pendingChanges[n].status = "pending"
  /\ messages[Len(messages)] = "assistant"
  /\ data = Blank
  /\ history = <<Blank>>

\* C26: when the list of the pending changes is cleared, every change of it
\* whose status is 'accepted' has its newValue in its cell.
C26_AcceptedIsWritten ==
  [][pendingChanges # <<>> /\ pendingChanges' = <<>>
       => \A n \in DOMAIN pendingChanges :
            pendingChanges[n].status = "accepted"
              => getCellValue(data', pendingChanges[n].row, pendingChanges[n].col)
                   = pendingChanges[n].newValue]_vars

\* C27: a change whose status is 'rejected' is not written, and
\* acceptAllChanges applies the changes that are 'pending' and no other: in
\* a step other than an undo the cell of a rejected change, unless a pending
\* change has the same cell, keeps its content; and a step that accepts the
\* pending changes puts the newValue of each in its cell and leaves every
\* other cell as it was.
C27_OnlyPendingIsApplied ==
  [][/\ ~Undo
          => \A n \in DOMAIN pendingChanges :
               /\ pendingChanges[n].status = "rejected"
               /\ \A m \in DOMAIN pendingChanges :
                    pendingChanges[m].status = "pending"
                      => Key(pendingChanges[m].row, pendingChanges[m].col)
                           # Key(pendingChanges[n].row, pendingChanges[n].col)
               => getCellValue(data', pendingChanges[n].row, pendingChanges[n].col)
                    = getCellValue(data, pendingChanges[n].row, pendingChanges[n].col)
     /\ AcceptAllChanges
          => /\ \A n \in DOMAIN pendingChanges :
                  pendingChanges[n].status = "pending"
                    => getCellValue(data', pendingChanges[n].row, pendingChanges[n].col)
                         = pendingChanges[n].newValue
             /\ \A k \in DOMAIN data' :
                  (\A n \in DOMAIN pendingChanges :
                     pendingChanges[n].status = "pending"
                       => Key(pendingChanges[n].row, pendingChanges[n].col) # k)
                    => k \in DOMAIN data /\ data'[k] = data[k]]_vars

\* The first change was rejected and Accept All was pressed: the second is
\* in its cell, the first is not.
C27_Witness ==
  /\ Len(pendingChanges) = 2
  /\ pendingChanges[1].status = "rejected"
  /\ pendingChanges[2].status = "accepted"
  /\ getCellValue(data, pendingChanges[1].row, pendingChanges[1].col) = ""
  /\ getCellValue(data, pendingChanges[2].row, pendingChanges[2].col)
       = pendingChanges[2].newValue
  /\ pendingChanges[1].newValue # ""

\* C28: the status of a change goes from 'pending' to 'accepted' or to
\* 'rejected' and no further: a change that stays in the list keeps a status
\* that is not 'pending'.
C28_StatusIsFinal ==
  [][\A n \in DOMAIN pendingChanges \cap DOMAIN pendingChanges' :
       pendingChanges'[n].id = pendingChanges[n].id
         => /\ pendingChanges'[n].status \in {"pending", "accepted", "rejected"}
            /\ pendingChanges[n].status # "pending"
                 => pendingChanges'[n].status = pendingChanges[n].status]_vars

\* C29: a timeout that was set for an earlier batch neither hides the
\* preview nor clears the list of the batch that is pending when it runs.
C29_TimersSpareLaterBatch ==
  [][\A t \in timers \ timers' :
       pendingChanges # <<>> /\ batchOf(pendingChanges) # t.batch
         => UNCHANGED <<pendingChanges, showDiffPreview>>]_vars

Users == Cardinality({n \in DOMAIN messages : messages[n] = "user"})
Replies == Cardinality({n \in DOMAIN messages : messages[n] \in {"assistant", "error"}})

\* C30: at most one request is in flight, isLoading is true exactly while
\* one is, and each message of the user has one message of the assistant,
\* its answer or its error, once its request is over.
C30_OneAnswerPerSend ==
  Users - Replies = IF isLoading THEN 1 ELSE 0

====
